---- MODULE Spec2Model ----
(***************************************************************************)
(* Model of the CSV-to-metrics aggregation and response-validation         *)
(* pipeline of the marketing-data-app QA scripts.                          *)
(*                                                                         *)
(* Each script is a sequential pipeline: read the CSV rows, compute the    *)
(* expected metrics, obtain an answer for a question, validate it.  The    *)
(* variable script names the script that is being run and pc its position. *)
(*                                                                         *)
(* Numbers: Python floats are modelled exactly.  Amounts and multipliers   *)
(* are integers; a quotient is a reduced fraction [num, den], so that the  *)
(* literal 0 of a guarded division equals the quotient 0/d.  Rounding of   *)
(* floating-point sums is not modelled.                                    *)
(*                                                                         *)
(* Text: a string is a sequence of lexemes.  " " is whitespace; every      *)
(* other lexeme is a block of non-whitespace characters.                   *)
(***************************************************************************)
EXTENDS Integers, Sequences, FiniteSets, TLC

VARIABLES
    script,     \* the script being run
    pc,         \* its position
    csv,        \* the rows of sample-campaign-data.csv
    data,       \* the records returned by the script's loader
    metrics,    \* the expected metrics computed from the records
    exc,        \* the exception that ended the script, if any
    question,   \* the test question being processed
    response,   \* the answer of the question-answering service
    expected,   \* the expected value the answer is compared with
    outcome,    \* the result of validating the answer
    attempt,    \* the number of the poll a monitoring loop is at
    reply,      \* what the request of that poll did
    polls,      \* the number of requests the monitoring loop has issued
    results     \* the counters or the list a run builds

\* the variables only monitor_deployment.py writes
polling == <<attempt, reply, polls>>

vars == <<script, pc, csv, data, metrics, exc, question, response, expected, outcome,
          attempt, reply, polls, results>>

(***************************************************************************)
(* Bounds and input universes                                              *)
(***************************************************************************)
MaxRows == 2

\* platform and campaign_name columns as they may appear in the file
KeyPairs ==
    { <<  <<"Meta">>,       <<"Foo">>          >>,
      <<  <<" ", "Meta">>,  <<" ", "Foo", " ">> >>,
      <<  <<"Amazon">>,     <<"Foo">>          >>,
      <<  <<"Meta">>,       <<"Bar">>          >> }

\* <<spend, roas>>
Money == { <<0, 1>>, <<1, 1>>, <<3, 3>> }

\* <<impressions, clicks, conversions, ctr>>; the ctr column is held in
\* hundredths (50 stands for the file's 0.50)
Counts == { <<0, 0, 0, 0>>, <<2, 1, 0, 50>>, <<2, 1, 1, 50>> }

\* one row of sample-campaign-data.csv, numeric columns already well typed
Rows ==
    { [platform |-> k[1], campaign_name |-> k[2],
       spend |-> m[1], roas |-> m[2],
       impressions |-> c[1], clicks |-> c[2], conversions |-> c[3],
       ctr |-> c[4]] : k \in KeyPairs, m \in Money, c \in Counts }

RECURSIVE SeqsUpTo(_, _)
SeqsUpTo(S, n) ==
    IF n = 0 THEN { <<>> }
    ELSE LET shorter == SeqsUpTo(S, n - 1)
         IN  shorter \cup { Append(s, x) : s \in { t \in shorter : Len(t) = n - 1 }, x \in S }

CsvFiles == SeqsUpTo(Rows, MaxRows)

(***************************************************************************)
(* Python helpers                                                          *)
(***************************************************************************)
RECURSIVE GCD(_, _)
GCD(a, b) == IF b = 0 THEN a ELSE GCD(b, a % b)

Zero == [num |-> 0, den |-> 1]

\* a / b for b > 0, as a reduced fraction
PyDiv(a, b) == LET g == GCD(a, b) IN [num |-> a \div g, den |-> b \div g]

RECURSIVE SumSeq(_)
SumSeq(s) == IF s = <<>> THEN 0 ELSE Head(s) + SumSeq(Tail(s))

\* str.strip(): remove leading and trailing whitespace
RECURSIVE LStrip(_)
LStrip(s) == IF s # <<>> /\ Head(s) = " " THEN LStrip(Tail(s)) ELSE s

RECURSIVE RStrip(_)
RStrip(s) ==
    IF s # <<>> /\ s[Len(s)] = " " THEN RStrip(SubSeq(s, 1, Len(s) - 1)) ELSE s

Strip(s) == RStrip(LStrip(s))

Column(rows, f) == [i \in 1..Len(rows) |-> rows[i][f]]

Range(s) == { s[i] : i \in 1..Len(s) }

RECURSIVE SumOverSet(_, _)
SumOverSet(f, S) ==
    IF S = {} THEN 0
    ELSE LET x == CHOOSE y \in S : TRUE IN f[x] + SumOverSet(f, S \ {x})

(***************************************************************************)
(* stratospheric_1000_uat.py                                               *)
(***************************************************************************)
RowRevenueSpendOnly(row) == row.spend

RowRevenue(row) == row.spend * row.roas

load_csv_data(rows) ==
    [i \in 1..Len(rows) |->
        [platform |-> rows[i].platform,
         campaign_name |-> rows[i].campaign_name,
         spend |-> rows[i].spend,
         revenue |-> RowRevenue(rows[i]),
         impressions |-> rows[i].impressions,
         clicks |-> rows[i].clicks,
         conversions |-> rows[i].conversions,
         ctr |-> IF rows[i].impressions > 0
                 THEN PyDiv(rows[i].clicks, rows[i].impressions) ELSE Zero,
         roas |-> rows[i].roas,
         cpa |-> IF rows[i].conversions > 0
                 THEN PyDiv(rows[i].spend, rows[i].conversions) ELSE Zero]]

\* defaultdict(list): the items whose field f equals key, in input order
GroupItemsStripped(items, f, key) ==
    SelectSeq(items, LAMBDA item : Strip(item[f]) = Strip(key))

GroupItems(items, f, key) == SelectSeq(items, LAMBDA item : item[f] = key)

groups(items, f) == [key \in Range(Column(items, f)) |-> GroupItems(items, f, key)]

RatioUnguarded(n, d) == IF d > 0 THEN PyDiv(n, d) ELSE [num |-> n, den |-> 0]

Ratio(n, d) == IF d > 0 THEN PyDiv(n, d) ELSE Zero

StratBucketFirstItem(items) ==
    LET first == IF items = <<>> THEN <<>> ELSE SubSeq(items, 1, 1)
        spend       == SumSeq(Column(first, "spend"))
        revenue     == SumSeq(Column(first, "revenue"))
        impressions == SumSeq(Column(first, "impressions"))
        clicks      == SumSeq(Column(first, "clicks"))
        conversions == SumSeq(Column(first, "conversions"))
    IN  [spend |-> spend, revenue |-> revenue, impressions |-> impressions,
         clicks |-> clicks, conversions |-> conversions,
         ctr |-> Ratio(clicks, impressions),
         roas |-> Ratio(revenue, spend),
         cpa |-> Ratio(spend, conversions)]

StratBucket(items) ==
    LET spend       == SumSeq(Column(items, "spend"))
        revenue     == SumSeq(Column(items, "revenue"))
        impressions == SumSeq(Column(items, "impressions"))
        clicks      == SumSeq(Column(items, "clicks"))
        conversions == SumSeq(Column(items, "conversions"))
    IN  [spend |-> spend, revenue |-> revenue, impressions |-> impressions,
         clicks |-> clicks, conversions |-> conversions,
         ctr |-> Ratio(clicks, impressions),
         roas |-> Ratio(revenue, spend),
         cpa |-> Ratio(spend, conversions)]

calculate_csv_metrics(items) ==
    LET overall == StratBucket(items)
        platform_groups == groups(items, "platform")
        campaign_groups == groups(items, "campaign_name")
    IN  [total_spend |-> overall.spend,
         total_revenue |-> overall.revenue,
         total_impressions |-> overall.impressions,
         total_clicks |-> overall.clicks,
         total_conversions |-> overall.conversions,
         overall_ctr |-> overall.ctr,
         overall_roas |-> overall.roas,
         overall_cpa |-> overall.cpa,
         platform_metrics |->
            [p \in DOMAIN platform_groups |-> StratBucket(platform_groups[p])],
         campaign_metrics |->
            [c \in DOMAIN campaign_groups |-> StratBucket(campaign_groups[c])]]

(***************************************************************************)
(* comprehensive_csv_validation.py and extended_100_questions_uat.py       *)
(***************************************************************************)
\* the bucket key of a row: platform as read, campaign_name stripped
PlatformKey(row) == row.platform

CampaignKey(row) == Strip(row.campaign_name)

\* the totals computed by lines 48-54 of both scripts
CsvTotals(csv_data) ==
    [total_spend |-> SumSeq(Column(csv_data, "spend")),
     total_impressions |-> SumSeq(Column(csv_data, "impressions")),
     total_clicks |-> SumSeq(Column(csv_data, "clicks")),
     total_conversions |-> SumSeq(Column(csv_data, "conversions")),
     total_revenue |-> SumSeq([i \in 1..Len(csv_data) |-> RowRevenue(csv_data[i])])]

\* line 57 of both scripts divides by len(csv_data) without a guard
AverageCtrRaises(csv_data) == Len(csv_data) = 0

\* sum(ctr values) / len(ctr values); the ctr column is held in hundredths
CtrMean(values) == PyDiv(SumSeq(values), 100 * Len(values))

\* one platform_data / campaign_data accumulator, then its metrics entry
CompBucket(rows) ==
    LET spend       == SumSeq(Column(rows, "spend"))
        impressions == SumSeq(Column(rows, "impressions"))
        clicks      == SumSeq(Column(rows, "clicks"))
        conversions == SumSeq(Column(rows, "conversions"))
        revenue     == SumSeq([i \in 1..Len(rows) |-> RowRevenue(rows[i])])
        ctr_values  == Column(rows, "ctr")
    IN  [ctr |-> IF ctr_values # <<>> THEN CtrMean(ctr_values) ELSE Zero,
         roas |-> Ratio(revenue, spend),
         spend |-> spend,
         impressions |-> impressions,
         clicks |-> clicks,
         conversions |-> conversions,
         cpc |-> Ratio(spend, clicks),
         cpm |-> Ratio(spend * 1000, impressions),
         cpa |-> Ratio(spend, conversions)]

CompCampaignBucket(rows) ==
    LET b == CompBucket(rows)
    IN  [ctr |-> b.ctr, roas |-> b.roas, spend |-> b.spend,
         impressions |-> b.impressions, clicks |-> b.clicks,
         conversions |-> b.conversions, cpc |-> b.cpc, cpa |-> b.cpa]

calculate_comprehensive_csv_metrics(csv_data) ==
    LET t == CsvTotals(csv_data)
        platforms == { PlatformKey(csv_data[i]) : i \in 1..Len(csv_data) }
        campaigns == { CampaignKey(csv_data[i]) : i \in 1..Len(csv_data) }
    IN  [total_spend |-> t.total_spend,
         total_revenue |-> t.total_revenue,
         total_impressions |-> t.total_impressions,
         total_clicks |-> t.total_clicks,
         total_conversions |-> t.total_conversions,
         overall_roas |-> Ratio(t.total_revenue, t.total_spend),
         average_ctr |-> CtrMean(Column(csv_data, "ctr")),
         average_cpc |-> Ratio(t.total_spend, t.total_clicks),
         average_cpm |-> Ratio(t.total_spend * 1000, t.total_impressions),
         average_cpa |-> Ratio(t.total_spend, t.total_conversions),
         conversion_rate |-> Ratio(t.total_conversions, t.total_clicks),
         platform_metrics |->
            [p \in platforms |->
                CompBucket(SelectSeq(csv_data, LAMBDA row : PlatformKey(row) = p))],
         campaign_metrics |->
            [c \in campaigns |->
                CompCampaignBucket(SelectSeq(csv_data, LAMBDA row : CampaignKey(row) = c))]]

ExtPlatformBucket(csv_data, p) ==
    LET b == CompBucket(SelectSeq(csv_data, LAMBDA row : row.platform = p))
    IN  [ctr |-> b.ctr, roas |-> b.roas, spend |-> b.spend,
         impressions |-> b.impressions, clicks |-> b.clicks,
         conversions |-> b.conversions]

ext_calculate_csv_metrics(csv_data) ==
    LET t == CsvTotals(csv_data)
        platforms == { csv_data[i].platform : i \in 1..Len(csv_data) }
    IN  [total_spend |-> t.total_spend,
         total_revenue |-> t.total_revenue,
         total_impressions |-> t.total_impressions,
         total_clicks |-> t.total_clicks,
         total_conversions |-> t.total_conversions,
         overall_roas |-> Ratio(t.total_revenue, t.total_spend),
         average_ctr |-> CtrMean(Column(csv_data, "ctr")),
         average_cpc |-> Ratio(t.total_spend, t.total_clicks),
         average_cpm |-> Ratio(t.total_spend * 1000, t.total_impressions),
         average_cpa |-> Ratio(t.total_spend, t.total_conversions),
         platform_metrics |-> [p \in platforms |-> ExtPlatformBucket(csv_data, p)]]

(***************************************************************************)
(* accurate_qa_test.py: AccurateQATester.calculate_expected_values         *)
(***************************************************************************)
\* keys of a dict in insertion order: first occurrences of s, in order
RECURSIVE InsertionOrder(_)
InsertionOrder(s) ==
    IF s = <<>> THEN <<>>
    ELSE LET init == InsertionOrder(SubSeq(s, 1, Len(s) - 1))
             last == s[Len(s)]
         IN  IF last \in Range(init) THEN init ELSE Append(init, last)

\* the roas of a platform or campaign entry: mean of the rows' roas values
AccRoas(rows) == PyDiv(SumSeq(Column(rows, "roas")), Len(rows))

AccEntry(rows, keyField, key) ==
    [name |-> key,
     spend |-> SumSeq(Column(rows, "spend")),
     revenue |-> SumSeq([i \in 1..Len(rows) |-> RowRevenue(rows[i])]),
     impressions |-> SumSeq(Column(rows, "impressions")),
     clicks |-> SumSeq(Column(rows, "clicks")),
     conversions |-> SumSeq(Column(rows, "conversions")),
     roas |-> AccRoas(rows),
     ctr |-> Ratio(SumSeq(Column(rows, "clicks")), SumSeq(Column(rows, "impressions")))]

AccList(rows, keyField) ==
    LET keys == InsertionOrder(Column(rows, keyField))
    IN  [i \in 1..Len(keys) |->
            AccEntry(SelectSeq(rows, LAMBDA row : row[keyField] = keys[i]),
                     keyField, keys[i])]

calculate_expected_values(rows) ==
    LET total_spend == SumSeq(Column(rows, "spend"))
        total_impressions == SumSeq(Column(rows, "impressions"))
        total_clicks == SumSeq(Column(rows, "clicks"))
        total_conversions == SumSeq(Column(rows, "conversions"))
        total_revenue == SumSeq([i \in 1..Len(rows) |-> RowRevenue(rows[i])])
        platform_list == AccList(rows, "platform")
        campaign_list == AccList(rows, "campaign_name")
    IN  [total_spend |-> total_spend,
         total_impressions |-> total_impressions,
         total_clicks |-> total_clicks,
         total_conversions |-> total_conversions,
         total_revenue |-> total_revenue,
         overall_roas |-> Ratio(total_revenue, total_spend),
         overall_ctr |-> Ratio(total_clicks, total_impressions),
         platforms |-> platform_list,
         platform_count |-> Len(platform_list),
         campaigns |-> campaign_list,
         campaign_count |-> Len(campaign_list)]

(***************************************************************************)
(* Answer text and the regular expressions applied to it                   *)
(***************************************************************************)
MaxAnswerLen == 3

IUnderstand == "I understand you're asking about"
TryAsking == "Try asking about"
LongText == "<200 letters>"
AmazonLed == "Amazon led with the highest ROAS at"

Digits == { "0", "1", "4" }

\* the lexemes an answer is made of
Alphabet ==
    { IUnderstand, TryAsking, "Error:", "Exception:", LongText, "spend",
      "$", "%", "x", ":", " " } \cup Digits

Answers == SeqsUpTo(Alphabet, MaxAnswerLen)

\* len() of one lexeme
LexLen(c) ==
    CASE c = IUnderstand -> 32
      [] c = TryAsking -> 16
      [] c = "Error:" -> 6
      [] c = "Exception:" -> 10
      [] c = LongText -> 200
      [] c = "spend" -> 5
      [] c = "help" -> 4
      [] c = "dollars" -> 7
      [] c = AmazonLed -> 35
      [] OTHER -> 1

PyLen(text) == SumSeq([i \in 1..Len(text) |-> LexLen(text[i])])

\* the searched substrings a lexeme holds; lower-case needles are the ones
\* the code searches in response.lower()
Needles(c) ==
    CASE c = IUnderstand -> { IUnderstand, "I understand" }
      [] c = TryAsking -> { "try asking about" }
      [] c = "Error:" -> { "Error:", "error" }
      [] c = "Exception:" -> { "exception" }
      [] c = "help" -> { "help" }
      [] OTHER -> {}

\* needle in text
HasNeedle(text, needle) == \E i \in 1..Len(text) : needle \in Needles(text[i])

DigitVal(c) == CASE c = "0" -> 0 [] c = "1" -> 1 [] c = "4" -> 4

Min(S) == CHOOSE x \in S : \A y \in S : x <= y

\* last index of the run of Class characters that starts at i (i - 1 if none)
RECURSIVE RunEnd(_, _, _)
RunEnd(text, i, Class) ==
    IF i <= Len(text) /\ text[i] \in Class THEN RunEnd(text, i + 1, Class) ELSE i - 1

At(text, i) == IF i >= 1 /\ i <= Len(text) THEN text[i] ELSE "<end>"

NoMatch == [found |-> FALSE, group |-> <<>>]
Match(text, from, to) == [found |-> TRUE, group |-> SubSeq(text, from, to)]

\* \d+\.?\d* matched at i: index of its last character
DecimalEnd(text, i) ==
    LET e == RunEnd(text, i, Digits)
    IN  IF At(text, e + 1) = "." THEN RunEnd(text, e + 2, Digits) ELSE e

\* \d{1,3}(?:,\d{3})*(?:\.\d+)? matched at i: index of its last character
RECURSIVE ThousandsEnd(_, _)
ThousandsEnd(text, e) ==
    IF /\ At(text, e + 1) = ","
       /\ \A k \in 2..4 : At(text, e + k) \in Digits
    THEN ThousandsEnd(text, e + 4) ELSE e

GroupedEnd(text, i) ==
    LET run == RunEnd(text, i, Digits)
        e1 == IF run > i + 2 THEN i + 2 ELSE run
        e2 == ThousandsEnd(text, e1)
    IN  IF At(text, e2 + 1) = "." /\ At(text, e2 + 2) \in Digits
        THEN RunEnd(text, e2 + 2, Digits) ELSE e2

\* re.search(r'(\d+\.?\d*)', text)
SearchDecimal(text) ==
    LET I == { i \in 1..Len(text) : text[i] \in Digits }
    IN  IF I = {} THEN NoMatch ELSE Match(text, Min(I), DecimalEnd(text, Min(I)))

\* re.search(r'(\d+\.?\d*)<lit>', text), lit one of % and x
SearchDecimalThen(text, lit) ==
    LET I == { i \in 1..Len(text) :
                 text[i] \in Digits /\ At(text, DecimalEnd(text, i) + 1) = lit }
    IN  IF I = {} THEN NoMatch ELSE Match(text, Min(I), DecimalEnd(text, Min(I)))

\* re.search(r'(\d+\.?\d*)\s*percent', text)
SearchDecimalPercentWord(text) ==
    LET I == { i \in 1..Len(text) :
                 /\ text[i] \in Digits
                 /\ At(text, RunEnd(text, DecimalEnd(text, i) + 1, {" "}) + 1) = "percent" }
    IN  IF I = {} THEN NoMatch ELSE Match(text, Min(I), DecimalEnd(text, Min(I)))

\* re.search(r'(\d{1,3}(?:,\d{3})*(?:\.\d+)?)', text)
SearchGrouped(text) ==
    LET I == { i \in 1..Len(text) : text[i] \in Digits }
    IN  IF I = {} THEN NoMatch ELSE Match(text, Min(I), GroupedEnd(text, Min(I)))

\* re.search(r':\s*(\d{1,3}(?:,\d{3})*(?:\.\d+)?)', text)
SearchAfterColon(text) ==
    LET start(i) == RunEnd(text, i + 1, {" "}) + 1
        I == { i \in 1..Len(text) : text[i] = ":" /\ At(text, start(i)) \in Digits }
    IN  IF I = {} THEN NoMatch
        ELSE Match(text, start(Min(I)), GroupedEnd(text, start(Min(I))))

\* digits as a decimal numeral
RECURSIVE ParseDigits(_)
ParseDigits(ds) ==
    IF ds = <<>> THEN 0
    ELSE 10 * ParseDigits(SubSeq(ds, 1, Len(ds) - 1)) + DigitVal(ds[Len(ds)])

RECURSIVE Pow10(_)
Pow10(n) == IF n = 0 THEN 1 ELSE 10 * Pow10(n - 1)

\* float(s.replace(',', '')): a fraction, or ValueError when s holds no digit
PyFloat(s) ==
    LET t == SelectSeq(s, LAMBDA c : c # ",")
        dots == { i \in 1..Len(t) : t[i] = "." }
        whole == IF dots = {} THEN t ELSE SubSeq(t, 1, Min(dots) - 1)
        frac == IF dots = {} THEN <<>> ELSE SubSeq(t, Min(dots) + 1, Len(t))
    IN  IF whole \o frac = <<>>
        THEN [ok |-> FALSE, val |-> Zero]
        ELSE [ok |-> TRUE, val |-> PyDiv(ParseDigits(whole \o frac), Pow10(Len(frac)))]

\* arithmetic on fractions
ToRat(n) == [num |-> n, den |-> 1]
RatLt(a, b) == a.num * b.den < b.num * a.den
RatLe(a, b) == a.num * b.den <= b.num * a.den
RatAbs(r) == [num |-> IF r.num < 0 THEN -r.num ELSE r.num, den |-> r.den]
RatAbsDiff(a, b) ==
    LET d == a.num * b.den - b.num * a.den
    IN  PyDiv(IF d < 0 THEN -d ELSE d, a.den * b.den)
\* a / b for b # 0; the quotient keeps the sign of a float division
RatDiv(a, b) ==
    LET n == a.num * b.den
        d == a.den * b.num
    IN  IF d < 0 THEN PyDiv(-n, -d) ELSE PyDiv(n, d)

(***************************************************************************)
(* comprehensive_uat_realistic_data.py                                     *)
(***************************************************************************)
None == [ok |-> FALSE, val |-> Zero]
Some(v) == [ok |-> TRUE, val |-> v]

\* the first pattern of the list that matches decides (float() cannot fail
\* on what these patterns capture)
FirstFound(matches) ==
    LET I == { i \in 1..Len(matches) : matches[i].found }
    IN  IF I = {} THEN NoMatch ELSE matches[Min(I)]

real_extract_number_from_response(text, metric_type) ==
    IF text = <<>> \/ HasNeedle(text, "Error:") THEN None
    ELSE LET m == IF metric_type = "percentage"
                  THEN FirstFound(<< SearchDecimalThen(text, "%"),
                                     SearchDecimalPercentWord(text) >>)
                  ELSE FirstFound(<< SearchAfterColon(text),
                                     SearchGrouped(text),
                                     SearchDecimal(text) >>)
         IN  IF ~m.found THEN None
             ELSE IF metric_type = "percentage"
                  THEN Some(RatDiv(PyFloat(m.group).val, ToRat(100)))
                  ELSE Some(PyFloat(m.group).val)

\* a variant that compares an extracted number before it looks for the
\* generic-help signature
real_validate_response_extract_first(text, expected_value, tolerance, query_type) ==
    LET extracted == real_extract_number_from_response(text, query_type)
    IN  IF text = <<>> \/ HasNeedle(text, "Error:")
        THEN [pass |-> FALSE, reason |-> "API Error or no response"]
        ELSE IF extracted.ok /\ expected_value.num # 0
                /\ RatLe(RatDiv(RatAbsDiff(extracted.val, expected_value), expected_value), tolerance)
        THEN [pass |-> TRUE, reason |-> "Expected, got"]
        ELSE IF HasNeedle(text, IUnderstand)
        THEN [pass |-> FALSE, reason |-> "Generic help response"]
        ELSE IF ~extracted.ok
        THEN [pass |-> FALSE, reason |-> "Could not extract number from response"]
        ELSE IF expected_value.num = 0
        THEN [pass |-> extracted.val.num = 0, reason |-> "Expected 0, got"]
        ELSE [pass |-> FALSE, reason |-> "Expected, got"]

real_validate_response(text, expected_value, tolerance, query_type) ==
    LET extracted == real_extract_number_from_response(text, query_type)
    IN  IF text = <<>> \/ HasNeedle(text, "Error:")
        THEN [pass |-> FALSE, reason |-> "API Error or no response"]
        ELSE IF HasNeedle(text, IUnderstand)
        THEN [pass |-> FALSE, reason |-> "Generic help response"]
        ELSE IF ~extracted.ok
        THEN [pass |-> FALSE, reason |-> "Could not extract number from response"]
        ELSE IF expected_value.num = 0
        THEN [pass |-> extracted.val.num = 0, reason |-> "Expected 0, got"]
        ELSE [pass |-> RatLe(RatDiv(RatAbsDiff(extracted.val, expected_value),
                                    expected_value), tolerance),
              reason |-> "Expected, got"]

\* the text of a cpc or cpm column: float() reads a numeral, and raises
\* ValueError on any other non-empty text
CostParses(text) == text # <<>> /\ \A i \in 1..Len(text) : text[i] \in Digits

\* float(row[f]) if row[f] else 0
CostOrZero(text) == IF text = <<>> THEN Zero ELSE ToRat(ParseDigits(text))

\* load_csv_data raises ValueError
RealLoadRaises(rows) ==
    \E i \in 1..Len(rows) :
        \/ rows[i].cpc # <<>> /\ ~CostParses(rows[i].cpc)
        \/ rows[i].cpm # <<>> /\ ~CostParses(rows[i].cpm)

\* load_csv_data: the record built from one row (the name columns
\* ad_group_name, placement_name, creative_name and creative_format are
\* copied through and never read again)
real_load_csv_data(rows) ==
    [i \in 1..Len(rows) |->
        [platform |-> rows[i].platform,
         campaign_name |-> rows[i].campaign_name,
         spend |-> rows[i].spend,
         revenue |-> RowRevenue(rows[i]),
         impressions |-> rows[i].impressions,
         clicks |-> rows[i].clicks,
         conversions |-> rows[i].conversions,
         ctr |-> Ratio(rows[i].clicks, rows[i].impressions),
         roas |-> rows[i].roas,
         cpc |-> CostOrZero(rows[i].cpc),
         cpm |-> CostOrZero(rows[i].cpm)]]

\* calculate_csv_metrics(data, query_type, **kwargs); every result a fraction
real_calculate_csv_metrics(items, query_type, key) ==
    LET of_platform == SelectSeq(items, LAMBDA item : item.platform = key)
        of_campaign == SelectSeq(items, LAMBDA item : item.campaign_name = key)
        sum(its, f) == SumSeq(Column(its, f))
    IN  CASE query_type = "total_spend" -> ToRat(sum(items, "spend"))
          [] query_type = "total_revenue" -> ToRat(sum(items, "revenue"))
          [] query_type = "total_impressions" -> ToRat(sum(items, "impressions"))
          [] query_type = "total_clicks" -> ToRat(sum(items, "clicks"))
          [] query_type = "overall_ctr" -> Ratio(sum(items, "clicks"), sum(items, "impressions"))
          [] query_type = "average_roas" -> Ratio(sum(items, "revenue"), sum(items, "spend"))
          [] query_type = "platform_roas" ->
                Ratio(sum(of_platform, "revenue"), sum(of_platform, "spend"))
          [] query_type = "platform_ctr" ->
                Ratio(sum(of_platform, "clicks"), sum(of_platform, "impressions"))
          [] query_type = "campaign_roas" ->
                Ratio(sum(of_campaign, "revenue"), sum(of_campaign, "spend"))
          [] query_type = "campaign_ctr" ->
                Ratio(sum(of_campaign, "clicks"), sum(of_campaign, "impressions"))
          [] OTHER -> Zero

(***************************************************************************)
(* comprehensive_csv_validation.py: validate_against_csv                   *)
(***************************************************************************)
\* a question is a sequence of lower-case lexemes; the searched phrases a
\* lexeme of question.lower() holds
QNeedles(c) ==
    CASE c = "total spend across all" -> { "total spend", "spend across all", "spend" }
      [] c = "total revenue generated" -> { "total revenue", "revenue generated" }
      [] c = "overall roas" -> { "overall roas", "roas" }
      [] c = "average ctr" -> { "average ctr", "ctr" }
      [] c = "total impressions" -> { "total impressions" }
      [] c = "total clicks" -> { "total clicks" }
      [] c = "total conversions" -> { "total conversions" }
      [] c = "average cpc" -> { "average cpc" }
      [] c = "average cpm" -> { "average cpm" }
      [] c = "average cpa" -> { "average cpa" }
      [] OTHER -> { c }

QHas(q, needle) == \E i \in 1..Len(q) : needle \in QNeedles(q[i])
QHasAny(q, needles) == \E n \in needles : QHas(q, n)

\* str.title() of the names the function looks up
TitleCase(name) ==
    CASE name = "meta" -> "Meta"
      [] name = "amazon" -> "Amazon"
      [] name = "dv360" -> "Dv360"
      [] name = "cm360" -> "Cm360"
      [] name = "sa360" -> "Sa360"
      [] name = "tradedesk" -> "Tradedesk"
      [] name = "freshnest summer grilling" -> "Freshnest Summer Grilling"
      [] name = "freshnest back to school" -> "Freshnest Back To School"
      [] name = "freshnest holiday recipes" -> "Freshnest Holiday Recipes"
      [] name = "freshnest pantry staples" -> "Freshnest Pantry Staples"

platform_queries == << "meta", "amazon", "dv360", "cm360", "sa360", "tradedesk" >>

campaign_queries ==
    << "freshnest summer grilling", "freshnest back to school",
       "freshnest holiday recipes", "freshnest pantry staples" >>

\* the first name of the list that the question contains ("" if none)
FirstNamed(names, q) ==
    LET I == { i \in 1..Len(names) : QHas(q, names[i]) }
    IN  IF I = {} THEN "" ELSE names[Min(I)]

\* d.get(name.title(), {}).get(field, 0)
GetMetric(d, name, field) ==
    IF << TitleCase(name) >> \notin DOMAIN d THEN Zero
    ELSE IF field = "spend" THEN ToRat(d[<< TitleCase(name) >>][field])
    ELSE d[<< TitleCase(name) >>][field]

DigitsComma == Digits \cup { "," }

\* re.search(r'\$([\d,]+\.?\d*)', text)
SearchDollarAmount(text) ==
    LET end(i) == LET e == RunEnd(text, i + 1, DigitsComma)
                  IN  IF At(text, e + 1) = "." THEN RunEnd(text, e + 2, Digits) ELSE e
        I == { i \in 1..Len(text) : text[i] = "$" /\ At(text, i + 1) \in DigitsComma }
    IN  IF I = {} THEN NoMatch ELSE Match(text, Min(I) + 1, end(Min(I)))

\* re.search(r'\$(\d+\.?\d*)', text)
SearchDollarDecimal(text) ==
    LET I == { i \in 1..Len(text) : text[i] = "$" /\ At(text, i + 1) \in Digits }
    IN  IF I = {} THEN NoMatch ELSE Match(text, Min(I) + 1, DecimalEnd(text, Min(I) + 1))

\* re.search(r'([\d,]+)', text)
SearchCount(text) ==
    LET I == { i \in 1..Len(text) : text[i] \in DigitsComma }
    IN  IF I = {} THEN NoMatch ELSE Match(text, Min(I), RunEnd(text, Min(I), DigitsComma))

\* int(s.replace(',', '')) for s made of digits and commas
PyInt(s) ==
    LET t == SelectSeq(s, LAMBDA c : c # ",")
    IN  IF t = <<>> THEN [ok |-> FALSE, val |-> Zero]
        ELSE [ok |-> TRUE, val |-> ToRat(ParseDigits(t))]

Verdict(valid, note) == [raised |-> "none", valid |-> valid, note |-> note]
Raised(e) == [raised |-> e, valid |-> FALSE, note |-> ""]

\* one "match, convert, compare" block: parsed is the converted group,
\* scale the divisor applied to it, bound the strict bound on the difference
Compare(m, parsed, scale, expected_value, bound, what) ==
    IF ~m.found THEN Verdict(FALSE, "No " \o what \o " found in response")
    ELSE IF ~parsed.ok THEN Raised("ValueError")
    ELSE IF RatLt(RatAbsDiff(RatDiv(parsed.val, ToRat(scale)), expected_value), bound)
         THEN Verdict(TRUE, what \o " matches")
         ELSE Verdict(FALSE, what \o " mismatch")

CompareSpend(text, expected_value, what) ==
    LET m == SearchDollarAmount(text)
    IN  Compare(m, PyFloat(m.group), 1, expected_value, ToRat(1), what)

CompareRoas(text, expected_value, what) ==
    LET m == SearchDecimalThen(text, "x")
    IN  Compare(m, PyFloat(m.group), 1, expected_value, [num |-> 1, den |-> 10], what)

CompareCtr(text, expected_value, what) ==
    LET m == SearchDecimalThen(text, "%")
    IN  Compare(m, PyFloat(m.group), 100, expected_value, [num |-> 1, den |-> 1000], what)

CompareCount(text, expected_value, bound, what) ==
    LET m == SearchCount(text)
    IN  Compare(m, PyInt(m.group), 1, expected_value, ToRat(bound), what)

CompareCost(text, expected_value, bound, what) ==
    LET m == SearchDollarDecimal(text)
    IN  Compare(m, PyFloat(m.group), 1, expected_value, bound, what)

\* lines 150-152
IsHelpMessage(text) == HasNeedle(text, "try asking about") /\ PyLen(text) < 200

\* sections 11 and 12 and the final check (lines 303-371)
ValidateNamed(q, text, m) ==
    LET platform == FirstNamed(platform_queries, q)
        campaign == FirstNamed(campaign_queries, q)
    IN  IF platform # "" /\ QHas(q, "roas")
        THEN CompareRoas(text, GetMetric(m.platform_metrics, platform, "roas"),
                         TitleCase(platform) \o " ROAS")
        ELSE IF platform # "" /\ QHas(q, "spend")
        THEN CompareSpend(text, GetMetric(m.platform_metrics, platform, "spend"),
                          TitleCase(platform) \o " spend")
        ELSE IF campaign # "" /\ QHas(q, "ctr")
        THEN CompareCtr(text, GetMetric(m.campaign_metrics, campaign, "ctr"),
                        TitleCase(campaign) \o " CTR")
        ELSE IF campaign # "" /\ QHas(q, "roas")
        THEN CompareRoas(text, GetMetric(m.campaign_metrics, campaign, "roas"),
                         TitleCase(campaign) \o " ROAS")
        ELSE IF PyLen(Strip(text)) > 10 /\ ~HasNeedle(text, "error")
        THEN Verdict(TRUE, "Response appears valid (no specific CSV validation available)")
        ELSE Verdict(FALSE, "Response too short or contains errors")

validate_against_csv(q, text, m) ==
    IF HasNeedle(text, "error") \/ HasNeedle(text, "exception")
    THEN Verdict(FALSE, "Response contains error")
    ELSE IF IsHelpMessage(text)
    THEN Verdict(FALSE, "Response is generic help message instead of specific answer")
    ELSE IF QHasAny(q, { "total spend", "spend across all", "total cost", "total budget",
                         "total investment", "total expenditure", "total advertising spend" })
    THEN CompareSpend(text, ToRat(m.total_spend), "Spend amount")
    ELSE IF QHasAny(q, { "total revenue", "revenue generated", "total return" })
    THEN CompareSpend(text, ToRat(m.total_revenue), "Revenue amount")
    ELSE IF QHasAny(q, { "overall roas", "total roas", "return on ad spend" })
    THEN CompareRoas(text, m.overall_roas, "ROAS")
    ELSE IF QHasAny(q, { "average ctr", "ctr" })
    THEN LET platform == FirstNamed(platform_queries, q)
         IN  IF platform # ""
             THEN CompareCtr(text, GetMetric(m.platform_metrics, platform, "ctr"),
                             TitleCase(platform) \o " CTR")
             ELSE CompareCtr(text, m.average_ctr, "Average CTR")
    ELSE IF QHasAny(q, { "total impressions", "impressions across all" })
    THEN CompareCount(text, ToRat(m.total_impressions), 100, "Impressions")
    ELSE IF QHasAny(q, { "total clicks", "clicks across all" })
    THEN CompareCount(text, ToRat(m.total_clicks), 10, "Clicks")
    ELSE IF QHasAny(q, { "total conversions", "conversions across all" })
    THEN CompareCount(text, ToRat(m.total_conversions), 5, "Conversions")
    ELSE IF QHasAny(q, { "average cpc", "cost per click" })
    THEN CompareCost(text, m.average_cpc, [num |-> 1, den |-> 2], "CPC")
    ELSE IF QHasAny(q, { "average cpm", "cost per thousand" })
    THEN CompareCost(text, m.average_cpm, ToRat(5), "CPM")
    ELSE IF QHasAny(q, { "average cpa", "cost per acquisition" })
    THEN CompareCost(text, m.average_cpa, ToRat(2), "CPA")
    ELSE ValidateNamed(q, text, m)

(***************************************************************************)
(* accurate_qa_test.py: extraction and test_question                       *)
(***************************************************************************)
\* text.replace(',', '').replace('$', '').replace('%', '')
StripFormatting(text) == SelectSeq(text, LAMBDA c : c \notin { ",", "$", "%" })

\* re.search(r'\$?([\d,]+\.?\d*)', text)
SearchDollarAmountOptional(text) ==
    LET end(i) == LET e == RunEnd(text, i, DigitsComma)
                  IN  IF At(text, e + 1) = "." THEN RunEnd(text, e + 2, Digits) ELSE e
        I == { i \in 1..Len(text) : text[i] \in DigitsComma }
    IN  IF I = {} THEN NoMatch ELSE Match(text, Min(I), end(Min(I)))

\* re.findall(pattern, text)[0] for the pattern of metric_type, on the text
\* with the formatting characters already removed
AccFirstMatch(text, metric_type) ==
    CASE metric_type = "currency" -> SearchDollarAmountOptional(text)
      [] metric_type = "percentage" -> SearchDecimalThen(text, "%")
      [] metric_type = "integer" ->
            LET I == { i \in 1..Len(text) : text[i] \in Digits }
            IN  IF I = {} THEN NoMatch ELSE Match(text, Min(I), RunEnd(text, Min(I), Digits))
      [] OTHER -> SearchDecimal(text)

extract_numeric_value(text, metric_type) ==
    LET m == AccFirstMatch(StripFormatting(text), metric_type)
    IN  IF m.found /\ PyFloat(m.group).ok THEN PyFloat(m.group).val ELSE Zero

\* a response of query_app: {"error": ...}, or a body with content and,
\* possibly, data.value (a number, or null)
ErrorResponse == [kind |-> "error", content |-> <<>>, value |-> Zero]
Body(content) == [kind |-> "content", content |-> content, value |-> Zero]
BodyWithValue(content, v) == [kind |-> "value", content |-> content, value |-> v]
BodyWithNull(content) == [kind |-> "null", content |-> content, value |-> Zero]

\* a variant that parses the content first and reads data.value only when
\* the content holds no number
extract_value_from_response_content_first(r) ==
    CASE r.kind \in { "value", "null" }
            /\ AccFirstMatch(StripFormatting(r.content), "decimal").found ->
            extract_numeric_value(r.content, "decimal")
      [] r.kind = "value" -> r.value
      [] r.kind = "null" -> Zero
      [] OTHER -> extract_numeric_value(r.content, "decimal")

extract_value_from_response(r) ==
    CASE r.kind = "value" -> r.value
      [] r.kind = "null" -> Zero
      [] OTHER -> extract_numeric_value(r.content, "decimal")

\* 1 - a / b and the comparison accuracy >= 1 - tolerance
OneMinus(r) == PyDiv(r.den - r.num, r.den)

\* the result dict of test_question without the echoed question and response
test_question(r, expected_value, tolerance) ==
    IF r.kind = "error"
    THEN [expected |-> expected_value, actual |-> "None", accuracy |-> "absent",
          passed |-> FALSE, error |-> "Request failed"]
    ELSE LET actual_value == extract_value_from_response(r)
             accuracy == IF expected_value.num # 0
                         THEN OneMinus(RatDiv(RatAbsDiff(actual_value, expected_value),
                                              RatAbs(expected_value)))
                         ELSE IF actual_value = expected_value THEN ToRat(1) ELSE Zero
         IN  [expected |-> expected_value, actual |-> actual_value, accuracy |-> accuracy,
              passed |-> RatLe(OneMinus(tolerance), accuracy), error |-> "absent"]

(***************************************************************************)
(* State machine                                                           *)
(***************************************************************************)
NoData == <<>>
NoMetrics == [none |-> TRUE]
NoQuestion == [none |-> TRUE]
NoResponse == <<>>
NoOutcome == [none |-> TRUE]
NoReply == [none |-> TRUE]
NoResults == [none |-> TRUE]

validation == <<question, response, expected, outcome>>

AggScripts ==
    { "stratospheric_1000_uat", "comprehensive_csv_validation",
      "extended_100_questions_uat", "accurate_qa_test" }

InitAgg ==
    /\ script \in AggScripts
    /\ pc = "start"
    /\ csv \in CsvFiles
    /\ data = NoData
    /\ metrics = NoMetrics
    /\ exc = "none"
    /\ question = NoQuestion
    /\ response = NoResponse
    /\ expected = Zero
    /\ outcome = NoOutcome
    /\ attempt = 0
    /\ reply = NoReply
    /\ polls = 0
    /\ results = NoResults

StratLoadCsvData ==
    /\ script = "stratospheric_1000_uat"
    /\ pc = "start"
    /\ data' = load_csv_data(csv)
    /\ pc' = "loaded"
    /\ UNCHANGED <<script, polling, results, csv, metrics, exc, validation>>

StratCalculateCsvMetrics ==
    /\ script = "stratospheric_1000_uat"
    /\ pc = "loaded"
    /\ metrics' = calculate_csv_metrics(data)
    /\ pc' = "metrics"
    /\ UNCHANGED <<script, polling, results, csv, data, exc, validation>>

\* get_csv_data returns the rows as read; the metrics call raises on line 57
\* when there are no rows, and the script ends with that exception
CompCalculateMetrics ==
    /\ script = "comprehensive_csv_validation"
    /\ pc = "start"
    /\ IF AverageCtrRaises(csv)
       THEN /\ exc' = "ZeroDivisionError"
            /\ pc' = "crashed"
            /\ UNCHANGED metrics
       ELSE /\ metrics' = calculate_comprehensive_csv_metrics(csv)
            /\ pc' = "metrics"
            /\ UNCHANGED exc
    /\ UNCHANGED <<script, polling, results, csv, data, validation>>

ExtCalculateMetrics ==
    /\ script = "extended_100_questions_uat"
    /\ pc = "start"
    /\ IF AverageCtrRaises(csv)
       THEN /\ exc' = "ZeroDivisionError"
            /\ pc' = "crashed"
            /\ UNCHANGED metrics
       ELSE /\ metrics' = ext_calculate_csv_metrics(csv)
            /\ pc' = "metrics"
            /\ UNCHANGED exc
    /\ UNCHANGED <<script, polling, results, csv, data, validation>>

\* AccurateQATester.__init__ loads self.data; the numeric columns are converted
AccLoadCsvData ==
    /\ script = "accurate_qa_test"
    /\ pc = "start"
    /\ data' = csv
    /\ pc' = "loaded"
    /\ UNCHANGED <<script, polling, results, csv, metrics, exc, validation>>

AccCalculateExpectedValues ==
    /\ script = "accurate_qa_test"
    /\ pc = "loaded"
    /\ metrics' = calculate_expected_values(data)
    /\ pc' = "metrics"
    /\ UNCHANGED <<script, polling, results, csv, data, exc, validation>>

NextAgg ==
    \/ StratLoadCsvData
    \/ StratCalculateCsvMetrics
    \/ CompCalculateMetrics
    \/ ExtCalculateMetrics
    \/ AccLoadCsvData
    \/ AccCalculateExpectedValues

SpecAgg == InitAgg /\ [][NextAgg]_vars

(***************************************************************************)
(* Validation runs: a fixed file, any answer                               *)
(***************************************************************************)
ValRow(platform, campaign, money, counts) ==
    [platform |-> platform, campaign_name |-> campaign,
     spend |-> money[1], roas |-> money[2],
     impressions |-> counts[1], clicks |-> counts[2], conversions |-> counts[3],
     ctr |-> counts[4]]

\* totals 4 spend, 10 revenue, 10 impressions, 4 clicks, 1 conversion
TwoPlatformFile ==
    << ValRow(<<"Meta">>, <<"FreshNest Summer Grilling">>, <<1, 1>>, <<5, 2, 1, 40>>),
       ValRow(<<"Amazon">>, <<"FreshNest Back to School">>, <<3, 3>>, <<5, 2, 0, 40>>) >>

\* a file whose every sum is 0
ZeroFile ==
    << ValRow(<<"Meta">>, <<"FreshNest Summer Grilling">>, <<0, 1>>, <<0, 0, 0, 0>>) >>

ValCsvFiles == { TwoPlatformFile, ZeroFile }

\* a file with the text of its cpc and cpm columns
WithCosts(rows, cpc, cpm) ==
    [i \in 1..Len(rows) |->
        [platform |-> rows[i].platform, campaign_name |-> rows[i].campaign_name,
         spend |-> rows[i].spend, roas |-> rows[i].roas,
         impressions |-> rows[i].impressions, clicks |-> rows[i].clicks,
         conversions |-> rows[i].conversions, ctr |-> rows[i].ctr,
         cpc |-> cpc, cpm |-> cpm]]

\* cost columns filled in, left empty, and holding text that is no number
RealCsvFiles ==
    { WithCosts(TwoPlatformFile, << "1" >>, << "1", "4" >>),
      WithCosts(ZeroFile, << "0" >>, <<>>),
      WithCosts(ZeroFile, << "x" >>, << "0" >>) }

\* entries of test_questions in run_comprehensive_uat
RealTest(q, query_type, response_type, key) ==
    [question |-> q, query_type |-> query_type,
     response_type |-> response_type, key |-> key]

RealTests ==
    { RealTest("How much money did we spend?", "total_spend", "number", <<>>),
      RealTest("What is our overall CTR?", "overall_ctr", "percentage", <<>>),
      RealTest("What is the ROAS for Meta?", "platform_roas", "number", <<"Meta">>),
      RealTest("How much did we spend on Amazon?", "platform_spend", "number", <<"Amazon">>),
      RealTest("Which platform performed best?", "comparative", "insights", <<>>) }

\* the tolerance run_comprehensive_uat passes: 0.1
RealTolerance == [num |-> 1, den |-> 10]

InitReal ==
    /\ script = "comprehensive_uat_realistic_data"
    /\ pc = "start"
    /\ csv \in RealCsvFiles
    /\ data = NoData
    /\ metrics = NoMetrics
    /\ exc = "none"
    /\ question = NoQuestion
    /\ response = NoResponse
    /\ expected = Zero
    /\ outcome = NoOutcome
    /\ attempt = 0
    /\ reply = NoReply
    /\ polls = 0
    /\ results = NoResults

RealLoadCsvData ==
    /\ script = "comprehensive_uat_realistic_data"
    /\ pc = "start"
    /\ IF RealLoadRaises(csv)
       THEN /\ exc' = "ValueError"
            /\ pc' = "crashed"
            /\ data' = data
       ELSE /\ data' = real_load_csv_data(csv)
            /\ pc' = "loaded"
            /\ exc' = exc
    /\ UNCHANGED <<script, polling, results, csv, metrics, validation>>

\* the loop takes the next test question and query_api returns its answer
RealQueryApi ==
    /\ script = "comprehensive_uat_realistic_data"
    /\ pc = "loaded"
    /\ \E t \in RealTests, answer \in Answers :
          /\ question' = t
          /\ response' = answer
    /\ pc' = "answered"
    /\ UNCHANGED <<script, polling, results, csv, data, metrics, exc, expected, outcome>>

\* lines 316-336: the insight check, or the expected value and validate_response
RealValidate ==
    /\ script = "comprehensive_uat_realistic_data"
    /\ pc = "answered"
    /\ IF question.response_type = "insights"
       THEN /\ outcome' =
                 IF response = <<>> \/ HasNeedle(response, "Error:")
                 THEN [pass |-> FALSE, reason |-> "API Error or no response"]
                 ELSE IF HasNeedle(response, IUnderstand)
                 THEN [pass |-> FALSE, reason |-> "Generic help response"]
                 ELSE [pass |-> TRUE, reason |-> "Meaningful insight response"]
            /\ UNCHANGED expected
       ELSE /\ expected' = real_calculate_csv_metrics(data, question.query_type, question.key)
            /\ outcome' = real_validate_response(response, expected', RealTolerance,
                                                 question.response_type)
    /\ pc' = "validated"
    /\ UNCHANGED <<script, polling, results, csv, data, metrics, exc, question, response>>

\* the for loop goes on to its next iteration; the loop variables of the
\* finished iteration are dead
RealNextQuestion ==
    /\ script = "comprehensive_uat_realistic_data"
    /\ pc = "validated"
    /\ question' = NoQuestion
    /\ response' = NoResponse
    /\ expected' = Zero
    /\ outcome' = NoOutcome
    /\ pc' = "loaded"
    /\ UNCHANGED <<script, polling, results, csv, data, metrics, exc>>

NextReal ==
    \/ RealLoadCsvData
    \/ RealQueryApi
    \/ RealValidate
    \/ RealNextQuestion

SpecReal == InitReal /\ [][NextReal]_vars

\* questions put to validate_against_csv, as question.lower()
CompQuestions ==
    { << "what is the ", "total spend across all", " campaigns?" >>,
      << "what is the ", "overall roas", "?" >>,
      << "what is the ", "average ctr", "?" >>,
      << "what is the total number of impressions?" >>,
      << "what are the ", "total impressions", "?" >>,
      << "what is the ", "average cpc", "?" >>,
      << "what is the ", "average ctr", " for ", "meta", "?" >>,
      << "what is the ", "roas", " for ", "meta", "?" >>,
      << "what is the ", "ctr", " for ", "freshnest back to school", "?" >>,
      << "what is the ", "roas", " for ", "freshnest back to school", "?" >> }

\* answers to that script: any short text, and amounts whose matched text
\* holds separators only
CompWrittenAnswers ==
    { << "$", "," >>, << "," >>, << "$", "4", ",", "0", "0", "0" >> }

CompAnswers == Answers \cup CompWrittenAnswers

InitComp ==
    /\ script = "comprehensive_csv_validation"
    /\ pc = "start"
    /\ csv \in ValCsvFiles
    /\ data = NoData
    /\ metrics = NoMetrics
    /\ exc = "none"
    /\ question = NoQuestion
    /\ response = NoResponse
    /\ expected = Zero
    /\ outcome = NoOutcome
    /\ attempt = 0
    /\ reply = NoReply
    /\ polls = 0
    /\ results = NoResults

\* the loop takes the next question and test_ui_ai_query returns its answer
CompQueryUi ==
    /\ script = "comprehensive_csv_validation"
    /\ pc = "metrics"
    /\ \E q \in CompQuestions, answer \in CompAnswers :
          /\ question' = q
          /\ response' = answer
    /\ pc' = "answered"
    /\ UNCHANGED <<script, polling, results, csv, data, metrics, exc, expected, outcome>>

\* validate_against_csv; a ValueError of a conversion ends the script
CompValidate ==
    /\ script = "comprehensive_csv_validation"
    /\ pc = "answered"
    /\ outcome' = validate_against_csv(question, response, metrics)
    /\ exc' = outcome'.raised
    /\ pc' = IF outcome'.raised = "none" THEN "validated" ELSE "crashed"
    /\ UNCHANGED <<script, polling, results, csv, data, metrics, question, response, expected>>

CompNextQuestion ==
    /\ script = "comprehensive_csv_validation"
    /\ pc = "validated"
    /\ question' = NoQuestion
    /\ response' = NoResponse
    /\ outcome' = NoOutcome
    /\ pc' = "metrics"
    /\ UNCHANGED <<script, polling, results, csv, data, metrics, exc, expected>>

NextComp ==
    \/ CompCalculateMetrics
    \/ CompQueryUi
    \/ CompValidate
    \/ CompNextQuestion

SpecComp == InitComp /\ [][NextComp]_vars

\* basic-metric questions of AccurateQATester with the key of their expected value
AccTests ==
    { [question |-> "How much money did we spend?", key |-> "total_spend"],
      [question |-> "How many impressions did we get?", key |-> "total_impressions"],
      [question |-> "How many clicks did we get?", key |-> "total_clicks"],
      [question |-> "What is the overall click-through rate?", key |-> "overall_ctr"] }

ShortAnswers == SeqsUpTo(Alphabet, 1)

AccResponses ==
    { ErrorResponse }
        \cup { Body(a) : a \in Answers }
        \cup { BodyWithValue(a, ToRat(v)) : a \in ShortAnswers, v \in { 0, 1, 4 } }
        \cup { BodyWithNull(a) : a \in ShortAnswers }

\* the default tolerance of test_question: 0.02
AccTolerance == [num |-> 1, den |-> 50]

InitAcc ==
    /\ script = "accurate_qa_test"
    /\ pc = "start"
    /\ csv \in ValCsvFiles
    /\ data = NoData
    /\ metrics = NoMetrics
    /\ exc = "none"
    /\ question = NoQuestion
    /\ response = NoResponse
    /\ expected = Zero
    /\ outcome = NoOutcome
    /\ attempt = 0
    /\ reply = NoReply
    /\ polls = 0
    /\ results = NoResults

\* test_question up to the return of query_app
AccQueryApp ==
    /\ script = "accurate_qa_test"
    /\ pc = "metrics"
    /\ \E t \in AccTests, r \in AccResponses :
          /\ question' = t
          /\ expected' = IF t.key = "overall_ctr"
                         THEN metrics[t.key] ELSE ToRat(metrics[t.key])
          /\ response' = r
    /\ pc' = "answered"
    /\ UNCHANGED <<script, polling, results, csv, data, metrics, exc, outcome>>

\* the rest of test_question
AccTestQuestion ==
    /\ script = "accurate_qa_test"
    /\ pc = "answered"
    /\ outcome' = test_question(response, expected, AccTolerance)
    /\ pc' = "validated"
    /\ UNCHANGED <<script, polling, results, csv, data, metrics, exc, question, response, expected>>

AccNextQuestion ==
    /\ script = "accurate_qa_test"
    /\ pc = "validated"
    /\ question' = NoQuestion
    /\ response' = NoResponse
    /\ expected' = Zero
    /\ outcome' = NoOutcome
    /\ pc' = "metrics"
    /\ UNCHANGED <<script, polling, results, csv, data, metrics, exc>>

NextAcc ==
    \/ AccLoadCsvData
    \/ AccCalculateExpectedValues
    \/ AccQueryApp
    \/ AccTestQuestion
    \/ AccNextQuestion

SpecAcc == InitAcc /\ [][NextAcc]_vars

(***************************************************************************)
(* Properties of the aggregators (checked under SpecAgg)                   *)
(***************************************************************************)
StratDone == script = "stratospheric_1000_uat" /\ pc = "metrics"
CompDone  == script = "comprehensive_csv_validation" /\ pc = "metrics"
ExtDone   == script = "extended_100_questions_uat" /\ pc = "metrics"
AccDone   == script = "accurate_qa_test" /\ pc = "metrics"

\* the rows of the file whose column f reads key, and sums over such rows
RowsWith(f, key) == { i \in 1..Len(csv) : csv[i][f] = key }
AllRows == 1..Len(csv)
SumRows(I, f) == SumOverSet([i \in I |-> csv[i][f]], I)
SumSpendTimesRoas(I) == SumOverSet([i \in I |-> csv[i].spend * csv[i].roas], I)

\* C1: the aggregators of comprehensive_csv_validation and
\* extended_100_questions_uat complete without raising for every record
\* list, the empty list included.
C1_NeverRaises ==
    script \in { "comprehensive_csv_validation", "extended_100_questions_uat" }
        => exc = "none"

\* C2: in stratospheric calculate_csv_metrics every derived ratio (ctr, roas,
\* cpa) of the overall totals, of every platform bucket and of every campaign
\* bucket is exactly 0 whenever its denominator sum is 0.
C2_BucketGuarded(b, I) ==
    /\ SumRows(I, "impressions") = 0 => b.ctr = Zero
    /\ SumRows(I, "spend") = 0 => b.roas = Zero
    /\ SumRows(I, "conversions") = 0 => b.cpa = Zero

C2_ZeroDenominatorGivesZero ==
    StratDone =>
        /\ C2_BucketGuarded([ctr |-> metrics.overall_ctr,
                             roas |-> metrics.overall_roas,
                             cpa |-> metrics.overall_cpa], AllRows)
        /\ \A p \in DOMAIN metrics.platform_metrics :
              C2_BucketGuarded(metrics.platform_metrics[p], RowsWith("platform", p))
        /\ \A c \in DOMAIN metrics.campaign_metrics :
              C2_BucketGuarded(metrics.campaign_metrics[c], RowsWith("campaign_name", c))

C2_Witness ==
    /\ StratDone
    /\ \E p \in DOMAIN metrics.platform_metrics :
          /\ SumRows(RowsWith("platform", p), "spend") = 0
          /\ metrics.platform_metrics[p].roas = Zero
    /\ \E q \in DOMAIN metrics.platform_metrics :
          metrics.platform_metrics[q].roas # Zero

\* C3: grouping is a partition: the per-platform sums, and the per-campaign
\* sums, of spend, impressions, clicks, conversions and revenue add up to
\* the overall totals.
SumFields == { "spend", "impressions", "clicks", "conversions", "revenue" }

C3_BucketsAddUp(buckets) ==
    \A f \in SumFields :
        SumOverSet([k \in DOMAIN buckets |-> buckets[k][f]], DOMAIN buckets)
            = metrics["total_" \o f]

C3_GroupingIsPartition ==
    StratDone =>
        /\ C3_BucketsAddUp(metrics.platform_metrics)
        /\ C3_BucketsAddUp(metrics.campaign_metrics)

C3_Witness ==
    /\ StratDone
    /\ Cardinality(DOMAIN metrics.platform_metrics) = 2
    /\ \A p \in DOMAIN metrics.platform_metrics : metrics.platform_metrics[p].spend > 0
    /\ metrics.total_spend = 4

\* C4: calculate_comprehensive_csv_metrics groups by platform and by
\* campaign name after trimming surrounding whitespace: values that differ
\* only in leading/trailing whitespace share one bucket.
C4_TrimmedGrouping ==
    CompDone =>
        /\ Cardinality(DOMAIN metrics.platform_metrics)
              = Cardinality({ Strip(csv[i].platform) : i \in AllRows })
        /\ Cardinality(DOMAIN metrics.campaign_metrics)
              = Cardinality({ Strip(csv[i].campaign_name) : i \in AllRows })

\* C5: in AccurateQATester.calculate_expected_values the roas of each
\* platform and campaign entry is its revenue sum divided by its spend sum,
\* and 0 when the spend sum is 0.
C5_EntryRoasFromSums(e) ==
    e.roas = (IF e.spend > 0 THEN PyDiv(e.revenue, e.spend) ELSE Zero)

C5_RoasFromBucketSums ==
    AccDone =>
        /\ \A i \in 1..Len(metrics.platforms) : C5_EntryRoasFromSums(metrics.platforms[i])
        /\ \A i \in 1..Len(metrics.campaigns) : C5_EntryRoasFromSums(metrics.campaigns[i])

\* C6: permuting the input record list does not change the result of
\* stratospheric calculate_csv_metrics (buckets, sums and derived ratios).
Shuffles(s) ==
    { [i \in 1..Len(s) |-> s[perm[i]]] : perm \in Permutations(1..Len(s)) }

C6_OrderIndependent ==
    StratDone => \A shuffled \in Shuffles(data) : calculate_csv_metrics(shuffled) = metrics

C6_Witness ==
    /\ StratDone
    /\ Len(data) = 2
    /\ data[1].platform = data[2].platform
    /\ data[1].spend # data[2].spend
    /\ data[1].impressions # data[2].impressions

\* C7: revenue is derived, never read: in every bucket an aggregator
\* produces the revenue sum is the sum of spend x roas over its records.
C7_RevenueDerived ==
    /\ (StratDone \/ CompDone \/ ExtDone \/ AccDone)
          => metrics.total_revenue = SumSpendTimesRoas(AllRows)
    /\ StratDone =>
          /\ \A p \in DOMAIN metrics.platform_metrics :
                metrics.platform_metrics[p].revenue
                    = SumSpendTimesRoas(RowsWith("platform", p))
          /\ \A c \in DOMAIN metrics.campaign_metrics :
                metrics.campaign_metrics[c].revenue
                    = SumSpendTimesRoas(RowsWith("campaign_name", c))
    /\ AccDone =>
          /\ \A i \in 1..Len(metrics.platforms) :
                metrics.platforms[i].revenue
                    = SumSpendTimesRoas(RowsWith("platform", metrics.platforms[i].name))
          /\ \A i \in 1..Len(metrics.campaigns) :
                metrics.campaigns[i].revenue
                    = SumSpendTimesRoas(RowsWith("campaign_name", metrics.campaigns[i].name))

C7_Witness ==
    /\ StratDone
    /\ Len(csv) = 2
    /\ metrics.total_spend = 4
    /\ metrics.total_revenue = 10
    /\ \E p \in DOMAIN metrics.platform_metrics : metrics.platform_metrics[p].revenue = 9

(***************************************************************************)
(* Properties of the validators                                            *)
(***************************************************************************)
\* C8: comprehensive_uat_realistic_data.validate_response checks the
\* generic-help signature before numeric extraction: an answer containing
\* "I understand you're asking about" fails as a generic help response even
\* when a number within tolerance can be extracted from it (the API-error
\* check alone comes earlier).
RealValidated ==
    /\ script = "comprehensive_uat_realistic_data"
    /\ pc = "validated"
    /\ question.response_type # "insights"

WithinTolerance(text, expected_value, metric_type) ==
    LET extracted == real_extract_number_from_response(text, metric_type)
    IN  /\ extracted.ok
        /\ expected_value.num # 0
        /\ RatLe(RatDiv(RatAbsDiff(extracted.val, expected_value), expected_value),
                 RealTolerance)

IsGenericHelp(text) == HasNeedle(text, "try asking about") \/ HasNeedle(text, IUnderstand)

C9_GenericHelpAlwaysFails ==
    (script = "comprehensive_csv_validation" /\ pc = "validated" /\ IsGenericHelp(response))
        => outcome.valid = FALSE

\* C10: in AccurateQATester an answer from which no number can be extracted
\* yields a failed result that differs from the result for an answer whose
\* number was extracted but is wrong (an extracted 0 included).
HasNumber(text) == \E i \in 1..Len(text) : text[i] \in Digits

C10_NoNumberDistinguishable ==
    (/\ script = "accurate_qa_test"
     /\ pc = "validated"
     /\ response.kind = "content"
     /\ ~HasNumber(response.content))
        => /\ outcome.passed = FALSE
           /\ \A a \in ShortAnswers :
                 (HasNumber(a) /\ ~test_question(Body(a), expected, AccTolerance).passed)
                     => test_question(Body(a), expected, AccTolerance) # outcome

(***************************************************************************)
(* comprehensive_100_question_uat.py                                       *)
(***************************************************************************)
\* load_csv_data: the record built from one row (the cpc and cpm columns are
\* copied through and never read again)
hundred_load_csv_data(rows) ==
    [i \in 1..Len(rows) |->
        [campaign |-> rows[i].campaign_name,
         platform |-> rows[i].platform,
         impressions |-> rows[i].impressions,
         clicks |-> rows[i].clicks,
         spend |-> rows[i].spend,
         revenue |-> RowRevenue(rows[i]),
         conversions |-> rows[i].conversions,
         ctr |-> rows[i].ctr,
         roas |-> rows[i].roas]]

\* one entry of campaign_metrics / platform_metrics
HundredBucket(items) ==
    [impressions |-> SumSeq(Column(items, "impressions")),
     clicks |-> SumSeq(Column(items, "clicks")),
     spend |-> SumSeq(Column(items, "spend")),
     revenue |-> SumSeq(Column(items, "revenue")),
     conversions |-> SumSeq(Column(items, "conversions")),
     avg_ctr |-> IF items # <<>> THEN CtrMean(Column(items, "ctr")) ELSE Zero,
     avg_roas |-> IF items # <<>>
                  THEN PyDiv(SumSeq(Column(items, "roas")), Len(items)) ELSE Zero]

hundred_calculate_csv_metrics(items) ==
    LET sum(f) == SumSeq(Column(items, f))
    IN  [total_impressions |-> sum("impressions"),
         total_clicks |-> sum("clicks"),
         total_spend |-> sum("spend"),
         total_revenue |-> sum("revenue"),
         total_conversions |-> sum("conversions"),
         overall_ctr |-> Ratio(sum("clicks"), sum("impressions")),
         overall_cpc |-> Ratio(sum("spend"), sum("clicks")),
         overall_cpm |-> Ratio(sum("spend") * 1000, sum("impressions")),
         overall_cpa |-> Ratio(sum("spend"), sum("conversions")),
         overall_roas |-> Ratio(sum("revenue"), sum("spend")),
         campaign_metrics |->
            [c \in Range(Column(items, "campaign")) |->
                HundredBucket(SelectSeq(items, LAMBDA item : item.campaign = c))],
         platform_metrics |->
            [p \in Range(Column(items, "platform")) |->
                HundredBucket(SelectSeq(items, LAMBDA item : item.platform = p))]]

\* the campaigns and platforms the questions list subscripts csv_metrics with
HundredCampaigns ==
    { <<"FreshNest Summer Grilling">>, <<"FreshNest Back to School">>,
      <<"FreshNest Holiday Recipes">>, <<"FreshNest Pantry Staples">> }

HundredPlatforms == { <<"Meta">>, <<"Amazon">> }

\* building the questions list raises KeyError when the file lacks one of them
HundredQuestionsRaise(m) ==
    \/ ~(HundredCampaigns \subseteq DOMAIN m.campaign_metrics)
    \/ ~(HundredPlatforms \subseteq DOMAIN m.platform_metrics)

HundredQuestion(q, expected_value, metric_type) ==
    [question |-> q, expected |-> expected_value, metric_type |-> metric_type]

\* entries of questions in run_comprehensive_uat (None is held as 0)
HundredQuestions(m) ==
    { HundredQuestion("What is our total revenue?", ToRat(m.total_revenue), "currency"),
      HundredQuestion("What is our overall CTR?", m.overall_ctr, "ctr"),
      HundredQuestion("What is the CTR for FreshNest Holiday Recipes?",
                      m.campaign_metrics[<<"FreshNest Holiday Recipes">>].avg_ctr, "ctr"),
      HundredQuestion("What is the ROAS for FreshNest Summer Grilling?",
                      m.campaign_metrics[<<"FreshNest Summer Grilling">>].avg_roas, "roas"),
      HundredQuestion("Which platform has the highest ROAS?", Zero, "comparison"),
      HundredQuestion("How many campaigns do we have?",
                      ToRat(Cardinality(DOMAIN m.campaign_metrics)), "number"),
      HundredQuestion("What is our total spend on Meta?",
                      ToRat(m.platform_metrics[<<"Meta">>].spend), "currency") }

\* lines 111-143: one pattern per metric type; a ValueError of float() is
\* caught and gives None
hundred_extract_number_from_response(text, metric_type) ==
    IF text = <<>> \/ HasNeedle(text, "Error:") THEN None
    ELSE LET m == CASE metric_type = "ctr" -> SearchDecimalThen(text, "%")
                    [] metric_type = "roas" -> SearchDecimalThen(text, "x")
                    [] metric_type \in { "currency", "number" } ->
                          SearchDollarAmountOptional(text)
                    [] OTHER -> NoMatch
         IN  IF ~m.found \/ ~PyFloat(m.group).ok THEN None
             ELSE IF metric_type = "ctr"
                  THEN Some(RatDiv(PyFloat(m.group).val, ToRat(100)))
                  ELSE Some(PyFloat(m.group).val)

\* lines 145-158
hundred_validate_response(text, expected_value, metric_type, tolerance) ==
    LET extracted == hundred_extract_number_from_response(text, metric_type)
    IN  IF text = <<>> \/ HasNeedle(text, "Error:")
        THEN [pass |-> FALSE, reason |-> "No response or error"]
        ELSE IF ~extracted.ok
        THEN [pass |-> FALSE, reason |-> "Could not extract value from response"]
        ELSE IF expected_value.num = 0
        THEN [pass |-> extracted.val.num = 0, reason |-> "Expected 0, got"]
        ELSE [pass |-> RatLe(RatDiv(RatAbsDiff(extracted.val, expected_value),
                                    expected_value), tolerance),
              reason |-> "Expected, got"]

\* the default tolerance of validate_response: 0.1
HundredTolerance == [num |-> 1, den |-> 10]

\* four campaigns on two platforms; Holiday Recipes has a ctr of 0
FourCampaignFile ==
    << ValRow(<<"Meta">>, <<"FreshNest Summer Grilling">>, <<1, 1>>, <<5, 2, 1, 40>>),
       ValRow(<<"Amazon">>, <<"FreshNest Back to School">>, <<3, 3>>, <<5, 2, 0, 40>>),
       ValRow(<<"Meta">>, <<"FreshNest Holiday Recipes">>, <<0, 1>>, <<0, 0, 0, 0>>),
       ValRow(<<"Amazon">>, <<"FreshNest Pantry Staples">>, <<0, 1>>, <<0, 0, 0, 0>>) >>

\* the same file with a roas column of -1 in its first row (float() reads a
\* signed column)
NegativeRoasFile ==
    [FourCampaignFile EXCEPT ![1] =
        ValRow(<<"Meta">>, <<"FreshNest Summer Grilling">>, <<1, -1>>, <<5, 2, 1, 40>>)]

HundredCsvFiles == { FourCampaignFile, NegativeRoasFile, TwoPlatformFile }

\* the lexemes of the answers put to this script
HundredAlphabet ==
    { "Error:", "help", LongText, "$", "%", "x", ",", "." } \cup Digits

HundredAnswers == SeqsUpTo(HundredAlphabet, MaxAnswerLen)

InitHundred ==
    /\ script = "comprehensive_100_question_uat"
    /\ pc = "start"
    /\ csv \in HundredCsvFiles
    /\ data = NoData
    /\ metrics = NoMetrics
    /\ exc = "none"
    /\ question = NoQuestion
    /\ response = NoResponse
    /\ expected = Zero
    /\ outcome = NoOutcome
    /\ attempt = 0
    /\ reply = NoReply
    /\ polls = 0
    /\ results = NoResults

HundredLoadCsvData ==
    /\ script = "comprehensive_100_question_uat"
    /\ pc = "start"
    /\ data' = hundred_load_csv_data(csv)
    /\ pc' = "loaded"
    /\ UNCHANGED <<script, polling, results, csv, metrics, exc, validation>>

HundredCalculateCsvMetrics ==
    /\ script = "comprehensive_100_question_uat"
    /\ pc = "loaded"
    /\ metrics' = hundred_calculate_csv_metrics(data)
    /\ pc' = "metrics"
    /\ UNCHANGED <<script, polling, results, csv, data, exc, validation>>

\* lines 175-338: the questions list with its expected values
HundredBuildQuestions ==
    /\ script = "comprehensive_100_question_uat"
    /\ pc = "metrics"
    /\ IF HundredQuestionsRaise(metrics)
       THEN exc' = "KeyError" /\ pc' = "crashed"
       ELSE exc' = exc /\ pc' = "questions"
    /\ UNCHANGED <<script, polling, results, csv, data, metrics, validation>>

\* the loop takes the next question and query_api returns its answer
HundredQueryApi ==
    /\ script = "comprehensive_100_question_uat"
    /\ pc = "questions"
    /\ \E t \in HundredQuestions(metrics), answer \in HundredAnswers :
          /\ question' = t
          /\ response' = answer
          /\ expected' = t.expected
    /\ pc' = "answered"
    /\ UNCHANGED <<script, polling, results, csv, data, metrics, exc, outcome>>

\* lines 350-364
HundredValidate ==
    /\ script = "comprehensive_100_question_uat"
    /\ pc = "answered"
    /\ outcome' =
         IF question.metric_type \in { "comparison", "list" }
         THEN LET is_valid == /\ PyLen(response) > 20
                              /\ ~HasNeedle(response, "help")
                              /\ ~HasNeedle(response, "Error:")
              IN  [pass |-> is_valid,
                   reason |-> IF is_valid THEN "Valid response" ELSE "Invalid response"]
         ELSE hundred_validate_response(response, expected, question.metric_type,
                                        HundredTolerance)
    /\ pc' = "validated"
    /\ UNCHANGED <<script, polling, results, csv, data, metrics, exc, question, response, expected>>

HundredNextQuestion ==
    /\ script = "comprehensive_100_question_uat"
    /\ pc = "validated"
    /\ question' = NoQuestion
    /\ response' = NoResponse
    /\ expected' = Zero
    /\ outcome' = NoOutcome
    /\ pc' = "questions"
    /\ UNCHANGED <<script, polling, results, csv, data, metrics, exc>>

NextHundred ==
    \/ HundredLoadCsvData
    \/ HundredCalculateCsvMetrics
    \/ HundredBuildQuestions
    \/ HundredQueryApi
    \/ HundredValidate
    \/ HundredNextQuestion

SpecHundred == InitHundred /\ [][NextHundred]_vars

\* C11: validate_response of comprehensive_100_question_uat.py passes an
\* extracted value exactly when |extracted - expected| / |expected| is at
\* most the tolerance for a nonzero expected value, and exactly when the
\* extracted value is 0 for an expected value of 0.
HundredExtracted ==
    /\ script = "comprehensive_100_question_uat"
    /\ pc = "validated"
    /\ question.metric_type \notin { "comparison", "list" }
    /\ hundred_extract_number_from_response(response, question.metric_type).ok

C11_RelativeTolerance ==
    HundredExtracted =>
        LET extracted ==
                hundred_extract_number_from_response(response, question.metric_type).val
        IN  outcome.pass =
                IF expected.num = 0 THEN extracted.num = 0
                ELSE RatLe(RatDiv(RatAbsDiff(extracted, expected), RatAbs(expected)),
                           HundredTolerance)

(***************************************************************************)
(* Properties of AccurateQATester (checked under SpecAcc)                  *)
(***************************************************************************)
AccValidatedContent ==
    /\ script = "accurate_qa_test"
    /\ pc = "validated"
    /\ response.kind = "content"

\* C12: in AccurateQATester an answer that states a rate as "N%" is parsed
\* as the fraction N/100 before it is compared with the expected value, and
\* extract_numeric_value with metric_type 'percentage' returns the number
\* that precedes the '%' sign.
C12_PercentAsFraction ==
    LET m == SearchDecimalThen(response.content, "%")
    IN  (AccValidatedContent /\ m.found) =>
            /\ outcome.actual = RatDiv(PyFloat(m.group).val, ToRat(100))
            /\ extract_numeric_value(response.content, "percentage") = PyFloat(m.group).val

(***************************************************************************)
(* stratospheric_1000_uat.py: answer validation                            *)
(***************************************************************************)
\* text.startswith(needle)
StartsWith(text, needle) == text # <<>> /\ needle \in Needles(text[1])

\* every index at which \d{1,3}(?:,\d{3})*(?:\.\d+)? can end when matched at i
RECURSIVE ThousandsEnds(_, _)
ThousandsEnds(text, e) ==
    { e } \cup
        IF /\ At(text, e + 1) = ","
           /\ \A k \in 2..4 : At(text, e + k) \in Digits
        THEN ThousandsEnds(text, e + 4) ELSE {}

GroupedEnds(text, i) ==
    LET heads == { e \in i..(i + 2) : \A k \in i..e : At(text, k) \in Digits }
        mids == UNION { ThousandsEnds(text, e) : e \in heads }
        fraction(e) == IF At(text, e + 1) = "." /\ At(text, e + 2) \in Digits
                       THEN (e + 2)..RunEnd(text, e + 2, Digits) ELSE {}
    IN  mids \cup UNION { fraction(e) : e \in mids }

\* re.search(r'\$(\d{1,3}(?:,\d{3})*(?:\.\d+)?)', text)
SearchDollarGrouped(text) ==
    LET I == { i \in 1..Len(text) : text[i] = "$" /\ At(text, i + 1) \in Digits }
    IN  IF I = {} THEN NoMatch ELSE Match(text, Min(I) + 1, GroupedEnd(text, Min(I) + 1))

\* re.search(r'(\d{1,3}(?:,\d{3})*(?:\.\d+)?)\s*<word>', text, re.IGNORECASE):
\* the leftmost start from which some match of the group is followed by the word
SearchGroupedThenWord(text, words) ==
    LET follows(e) == At(text, RunEnd(text, e + 1, {" "}) + 1) \in words
        I == { i \in 1..Len(text) :
                 text[i] \in Digits /\ \E e \in GroupedEnds(text, i) : follows(e) }
    IN  IF I = {} THEN NoMatch
        ELSE Match(text, Min(I), CHOOSE e \in GroupedEnds(text, Min(I)) : follows(e))

\* re.search(r'(\d+\.?\d*)\s*per\s*cent', text, re.IGNORECASE)
SearchDecimalPerCent(text) ==
    LET per(i) == RunEnd(text, DecimalEnd(text, i) + 1, {" "}) + 1
        I == { i \in 1..Len(text) :
                 /\ text[i] \in Digits
                 /\ At(text, per(i)) \in { "per", "Per", "PER" }
                 /\ At(text, RunEnd(text, per(i) + 1, {" "}) + 1) \in { "cent", "Cent", "CENT" } }
    IN  IF I = {} THEN NoMatch ELSE Match(text, Min(I), DecimalEnd(text, Min(I)))

\* lines 131-163: the first pattern of the metric type that matches decides
strat_extract_number_from_response(text, metric_type) ==
    LET m == CASE metric_type = "percentage" ->
                    FirstFound(<< SearchDecimalThen(text, "%"),
                                  SearchDecimalPercentWord(text),
                                  SearchDecimalPerCent(text) >>)
                [] metric_type = "currency" ->
                    FirstFound(<< SearchDollarGrouped(text),
                                  SearchGroupedThenWord(text, { "dollar", "dollars" }),
                                  SearchGroupedThenWord(text, { "USD", "usd" }) >>)
                [] OTHER ->
                    FirstFound(<< SearchAfterColon(text),
                                  SearchGrouped(text),
                                  SearchDecimal(text) >>)
    IN  IF ~m.found THEN None
        ELSE IF metric_type = "percentage"
             THEN Some(RatDiv(PyFloat(m.group).val, ToRat(100)))
             ELSE Some(PyFloat(m.group).val)

\* lines 165-186
strat_validate_response(text, expected_value, metric_type, tolerance) ==
    LET extracted == strat_extract_number_from_response(text, metric_type)
    IN  IF text = <<>> \/ HasNeedle(text, "error")
        THEN [pass |-> FALSE, reason |-> "Error in response"]
        ELSE IF metric_type \in { "comparative", "insights" }
        THEN IF PyLen(text) > 50 /\ ~StartsWith(text, "I understand")
             THEN [pass |-> TRUE, reason |-> "Valid response"]
             ELSE [pass |-> FALSE, reason |-> "Generic response"]
        ELSE IF ~extracted.ok
        THEN [pass |-> FALSE, reason |-> "Could not extract number from response"]
        ELSE [pass |-> RatLe(RatAbsDiff(extracted.val, expected_value), tolerance),
              reason |-> "Expected, got"]

\* the default tolerance of validate_response: 0.01
StratTolerance == [num |-> 1, den |-> 100]

\* entries of generate_1000_questions: question, expected_key split at '.',
\* metric_type
StratQuestion(q, expected_key, metric_type) ==
    [question |-> q, expected_key |-> expected_key, metric_type |-> metric_type]

StratQuestions ==
    { StratQuestion("What is our total spend?", << "total_spend" >>, "currency"),
      StratQuestion("What is our overall CTR?", << "overall_ctr" >>, "percentage"),
      StratQuestion("What is our overall ROAS?", << "overall_roas" >>, "number"),
      StratQuestion("How much did we spend on Meta?",
                    << "platform_metrics", <<"Meta">>, "spend" >>, "currency"),
      StratQuestion("Which platform performed best?", <<>>, "comparative"),
      StratQuestion("Which platform should I put more money into?", <<>>, "insights") }

\* lines 356-370: the expected value of a question (None is held as 0); a
\* platform the file lacks raises KeyError
StratExpectedRaises(m, expected_key) ==
    /\ Len(expected_key) = 3
    /\ expected_key[2] \notin DOMAIN m[expected_key[1]]

StratExpected(m, expected_key) ==
    LET v == IF Len(expected_key) = 3
             THEN m[expected_key[1]][expected_key[2]][expected_key[3]]
             ELSE m[expected_key[1]]
        field == expected_key[Len(expected_key)]
    IN  IF expected_key = <<>> THEN Zero
        ELSE IF field \in { "overall_ctr", "overall_roas", "overall_cpa", "ctr", "roas", "cpa" }
        THEN v ELSE ToRat(v)

\* the lexemes of the answers put to this script
StratAlphabet ==
    { IUnderstand, "Error:", LongText, "dollars", "$", "%", ":", ",", ".", " " }
        \cup Digits

\* "Amazon led with the highest ROAS at 4.0x" (40 characters), and amounts
\* written with and without thousands separators
StratWrittenAnswers ==
    { << AmazonLed, " ", "4", ".", "0", "x" >>,
      << "$", "1", ",", "4", "4", "4", ".", "1", "4" >>,
      << "$", "1", "4", "4", "4", ".", "1", "4" >>,
      << "spend", ":", " ", "$", "4", ",", "0", "0", "0" >>,
      << "spend", ":", " ", "$", "4", "0", "0", "0" >> }

StratAnswers == SeqsUpTo(StratAlphabet, MaxAnswerLen) \cup StratWrittenAnswers

InitStrat ==
    /\ script = "stratospheric_1000_uat"
    /\ pc = "start"
    /\ csv \in ValCsvFiles
    /\ data = NoData
    /\ metrics = NoMetrics
    /\ exc = "none"
    /\ question = NoQuestion
    /\ response = NoResponse
    /\ expected = Zero
    /\ outcome = NoOutcome
    /\ attempt = 0
    /\ reply = NoReply
    /\ polls = 0
    /\ results = NoResults

\* lines 353-374: the next question, its expected value, the answer of query_api
StratQueryApi ==
    /\ script = "stratospheric_1000_uat"
    /\ pc = "metrics"
    /\ \E t \in StratQuestions, answer \in StratAnswers :
          /\ question' = t
          /\ IF StratExpectedRaises(metrics, t.expected_key)
             THEN /\ exc' = "KeyError"
                  /\ pc' = "crashed"
                  /\ UNCHANGED <<expected, response>>
             ELSE /\ expected' = StratExpected(metrics, t.expected_key)
                  /\ response' = answer
                  /\ pc' = "answered"
                  /\ exc' = exc
    /\ UNCHANGED <<script, polling, results, csv, data, metrics, outcome>>

\* line 377
StratValidate ==
    /\ script = "stratospheric_1000_uat"
    /\ pc = "answered"
    /\ outcome' = strat_validate_response(response, expected, question.metric_type,
                                          StratTolerance)
    /\ pc' = "validated"
    /\ UNCHANGED <<script, polling, results, csv, data, metrics, exc, question, response, expected>>

StratNextQuestion ==
    /\ script = "stratospheric_1000_uat"
    /\ pc = "validated"
    /\ question' = NoQuestion
    /\ response' = NoResponse
    /\ expected' = Zero
    /\ outcome' = NoOutcome
    /\ pc' = "metrics"
    /\ UNCHANGED <<script, polling, results, csv, data, metrics, exc>>

NextStrat ==
    \/ StratLoadCsvData
    \/ StratCalculateCsvMetrics
    \/ StratQueryApi
    \/ StratValidate
    \/ StratNextQuestion

SpecStrat == InitStrat /\ [][NextStrat]_vars

StratValidated == script = "stratospheric_1000_uat" /\ pc = "validated"

\* the first '$' of the text, and the amount written after it: digits in
\* groups of three with separators, or digits without separators
FirstDollar(text) == Min({ i \in 1..Len(text) : text[i] = "$" })

WrittenAmount(text, i) ==
    LET grouped == GroupedEnd(text, i)
        plain == DecimalEnd(text, i)
    IN  SubSeq(text, i, IF plain > grouped THEN plain ELSE grouped)

\* C13: for metric type 'currency' extract_number_from_response returns the
\* complete amount that follows the first '$' of the answer, thousands
\* separators removed, whether the amount is written with separators
\* ("$1,444.14") or without them ("$1444.14").
C13_CompleteAmount ==
    (/\ StratValidated
     /\ question.metric_type = "currency"
     /\ \E i \in 1..Len(response) : response[i] = "$"
     /\ At(response, FirstDollar(response) + 1) \in Digits)
        => strat_extract_number_from_response(response, "currency")
              = Some(PyFloat(WrittenAmount(response, FirstDollar(response) + 1)).val)

\* C14: for comparative and insight questions validate_response compares no
\* number and passes every non-empty answer that is neither an error nor a
\* generic fallback/help response, "Amazon led with the highest ROAS at
\* 4.0x" included.
C14_SubstantiveAnswerPasses ==
    (/\ StratValidated
     /\ question.metric_type \in { "comparative", "insights" }
     /\ response # <<>>
     /\ ~HasNeedle(response, "error")
     /\ ~HasNeedle(response, "I understand"))
        => outcome.pass

\* C15: extract_value_from_response uses data.value whenever the response
\* carries one, whatever the content says, and parses the content text only
\* when the response has no data.value.
AccValidated == script = "accurate_qa_test" /\ pc = "validated"

C15_StructuredValuePreferred ==
    AccValidated =>
        /\ response.kind = "value" => outcome.actual = response.value
        /\ response.kind \in { "value", "null" } =>
              \A a \in ShortAnswers :
                  extract_value_from_response([response EXCEPT !.content = a])
                      = outcome.actual
        /\ response.kind = "content" =>
              outcome.actual = extract_numeric_value(response.content, "decimal")

C15_Witness ==
    /\ AccValidated
    /\ response.kind = "value"
    /\ HasNumber(response.content)
    /\ extract_numeric_value(response.content, "decimal") # response.value
    /\ outcome.actual = response.value

(***************************************************************************)
(* Properties of validate_against_csv (checked under SpecComp)             *)
(***************************************************************************)
CompReturned ==
    /\ script = "comprehensive_csv_validation"
    /\ pc \in { "validated", "crashed" }

\* C16: validate_against_csv returns a (pass, reason) pair and never raises,
\* for every question and every answer, empty answers and answers whose
\* matched text cannot be converted to a number included.
C16_ValidatorNeverRaises == CompReturned => outcome.raised = "none"

\* the campaign names as they appear in the data, by their lower-case form
DataName(campaign) ==
    CASE campaign = "freshnest summer grilling" -> << "FreshNest Summer Grilling" >>
      [] campaign = "freshnest back to school" -> << "FreshNest Back to School" >>
      [] campaign = "freshnest holiday recipes" -> << "FreshNest Holiday Recipes" >>
      [] campaign = "freshnest pantry staples" -> << "FreshNest Pantry Staples" >>

\* the question names a campaign of the data, and no platform
NamesCampaign(q) ==
    /\ FirstNamed(campaign_queries, q) # ""
    /\ FirstNamed(platform_queries, q) = ""
    /\ DataName(FirstNamed(campaign_queries, q)) \in DOMAIN metrics.campaign_metrics

CompJudged ==
    /\ script = "comprehensive_csv_validation"
    /\ pc = "validated"
    /\ ~HasNeedle(response, "error")
    /\ ~HasNeedle(response, "exception")
    /\ ~IsHelpMessage(response)

\* C17: when the question names a known campaign and asks for its CTR or
\* ROAS, validate_against_csv compares the answer with that campaign's own
\* ctr / roas entry of csv_metrics['campaign_metrics'], keyed by the name as
\* it appears in the data.
C17_CampaignOwnEntry ==
    (CompJudged /\ NamesCampaign(question)) =>
        LET entry == metrics.campaign_metrics[DataName(FirstNamed(campaign_queries, question))]
        IN  /\ QHas(question, "ctr") =>
                  outcome.valid = CompareCtr(response, entry.ctr, "CTR").valid
            /\ (QHas(question, "roas") /\ ~QHas(question, "ctr")) =>
                  outcome.valid = CompareRoas(response, entry.roas, "ROAS").valid

\* the question matches one of the patterns of sections 1 to 12
CompRecognised(q) ==
    \/ QHasAny(q, { "total spend", "spend across all", "total cost", "total budget",
                    "total investment", "total expenditure", "total advertising spend",
                    "total revenue", "revenue generated", "total return",
                    "overall roas", "total roas", "return on ad spend",
                    "average ctr", "ctr",
                    "total impressions", "impressions across all",
                    "total clicks", "clicks across all",
                    "total conversions", "conversions across all",
                    "average cpc", "cost per click",
                    "average cpm", "cost per thousand",
                    "average cpa", "cost per acquisition" })
    \/ FirstNamed(platform_queries, q) # "" /\ QHasAny(q, { "roas", "spend" })
    \/ FirstNamed(campaign_queries, q) # "" /\ QHasAny(q, { "ctr", "roas" })

\* C18: validate_against_csv returns pass = false for every question that
\* matches none of its recognised patterns.
C18_UnrecognisedFails ==
    (/\ script = "comprehensive_csv_validation"
     /\ pc = "validated"
     /\ ~CompRecognised(question))
        => outcome.valid = FALSE

\* C19: load_csv_data of comprehensive_uat_realistic_data.py either fails or
\* returns records whose cpc and cpm are exactly the values parsed from the
\* row; a row with an empty cpc or cpm is never returned with that field 0.
RealLoaded ==
    /\ script = "comprehensive_uat_realistic_data"
    /\ pc = "loaded"

C19_NoSilentZero ==
    RealLoaded =>
        \A i \in 1..Len(csv) :
            /\ CostParses(csv[i].cpc) /\ data[i].cpc = ToRat(ParseDigits(csv[i].cpc))
            /\ CostParses(csv[i].cpm) /\ data[i].cpm = ToRat(ParseDigits(csv[i].cpm))

(***************************************************************************)
(* monitor_deployment.py                                                   *)
(***************************************************************************)
MaxAttempts == 8

\* what one request to the API can do: fail (urlopen or json.loads raises),
\* return a body without a content key, with a null content, or with text
MonContents ==
    { <<>>,
      << IUnderstand >>,
      << IUnderstand, " ", LongText >>,
      << LongText >>,
      << AmazonLed, " ", "4", ".", "0", "x" >>,
      << "Error:", " ", LongText >> }

MonReplies ==
    { [kind |-> "failed", text |-> <<>>],
      [kind |-> "missing", text |-> <<>>],
      [kind |-> "null", text |-> <<>>] }
        \cup { [kind |-> "content", text |-> t] : t \in MonContents }

\* query_api: the content, 'No content', None for a null content, or
\* "Error: ..." when the request raised
mon_query_api(r) ==
    CASE r.kind = "failed" -> [is_none |-> FALSE, text |-> << "Error:", " ", "<exception>" >>]
      [] r.kind = "missing" -> [is_none |-> FALSE, text |-> << "No content" >>]
      [] r.kind = "null" -> [is_none |-> TRUE, text |-> <<>>]
      [] OTHER -> [is_none |-> FALSE, text |-> r.text]

\* old_response
old_response == IUnderstand

\* response before the first request has returned
MonNoResponse == [is_none |-> TRUE, text |-> <<>>]

InitMon ==
    /\ script = "monitor_deployment"
    /\ pc = "polling"
    /\ csv = <<>>
    /\ data = NoData
    /\ metrics = NoMetrics
    /\ exc = "none"
    /\ question = "platform performed best"
    /\ response = MonNoResponse
    /\ expected = Zero
    /\ outcome = NoOutcome
    /\ attempt = 1
    /\ reply = NoReply
    /\ polls = 0
    /\ results = NoResults

\* line 44: response = query_api(test_query)
MonQueryApi ==
    /\ script = "monitor_deployment"
    /\ pc = "polling"
    /\ attempt <= MaxAttempts
    /\ \E r \in MonReplies :
          /\ reply' = r
          /\ response' = mon_query_api(r)
    /\ polls' = polls + 1
    /\ pc' = "answered"
    /\ UNCHANGED <<script, results, csv, data, metrics, exc, question, expected, outcome, attempt>>

\* the test of the answer with an except branch that goes round without
\* counting the attempt
MonCheckErrorNotCounted ==
    /\ script = "monitor_deployment"
    /\ pc = "answered"
    /\ IF response.is_none
       THEN /\ outcome' = [printed |-> "Error testing"]
            /\ attempt' = attempt
            /\ pc' = "polling"
       ELSE IF HasNeedle(response.text, old_response)
       THEN /\ outcome' = [printed |-> "Still old code - deployment not complete"]
            /\ attempt' = attempt + 1
            /\ pc' = "polling"
       ELSE /\ outcome' = [printed |-> "DEPLOYMENT COMPLETE"]
            /\ attempt' = attempt
            /\ pc' = "complete"
    /\ UNCHANGED <<script, results, csv, data, metrics, exc, question, response, expected, reply, polls>>

\* lines 46-59: the test of the answer; "in" on None raises TypeError, which
\* the except of line 55 reports before the loop goes on
MonCheck ==
    /\ script = "monitor_deployment"
    /\ pc = "answered"
    /\ IF response.is_none
       THEN /\ outcome' = [printed |-> "Error testing"]
            /\ attempt' = attempt + 1
            /\ pc' = "polling"
       ELSE IF HasNeedle(response.text, old_response)
       THEN /\ outcome' = [printed |-> "Still old code - deployment not complete"]
            /\ attempt' = attempt + 1
            /\ pc' = "polling"
       ELSE /\ outcome' = [printed |-> "DEPLOYMENT COMPLETE"]
            /\ attempt' = attempt
            /\ pc' = "complete"
    /\ UNCHANGED <<script, results, csv, data, metrics, exc, question, response, expected, reply, polls>>

NextMon ==
    \/ MonQueryApi
    \/ MonCheck

SpecMon == InitMon /\ [][NextMon]_vars

\* the API returned an answer that the new handlers produced
NewHandlerAnswer(r) ==
    /\ r.kind = "content"
    /\ r.text # <<>>
    /\ ~HasNeedle(r.text, old_response)

\* C20: monitor_deployment reports "DEPLOYMENT COMPLETE" and stops polling
\* only after the API returned an answer produced by the new handlers; a
\* poll whose request failed or returned no content never ends the
\* monitoring as complete.
C20_CompleteOnlyOnNewAnswer ==
    (script = "monitor_deployment" /\ pc = "complete") => NewHandlerAnswer(reply)

(***************************************************************************)
(* monitor_deployment.py: the order of the polls                           *)
(***************************************************************************)

\* the loop body runs to its end once query_api has returned: nothing between
\* line 44 and line 60 waits, so the test of the answer is always taken
SpecMonLive == SpecMon /\ WF_vars(MonCheck)

\* line 46: old_response in response, for a response that is a text
ContainsPhrase(r) == ~r.is_none /\ HasNeedle(r.text, old_response)

\* a response that is a text without the phrase
TextWithoutPhrase(r) == ~r.is_none /\ ~HasNeedle(r.text, old_response)

\* one request at a time, attempt numbering the poll in hand: a request is
\* issued only from the head of the loop, and attempt is the number of
\* requests issued once the request has returned, one more at the head
MonOneAtATime ==
    /\ polls' \in {polls, polls + 1}
    /\ polls' = polls + 1 => pc = "polling" /\ pc' = "answered"
    /\ attempt' = IF pc' = "polling" THEN polls' + 1 ELSE polls'
    /\ pc # "complete"

\* C21, as stated: monitor_deployment polls one request at a time, attempt
\* counting the polls; a response with the phrase sends the loop round again,
\* and the first response without the phrase ends the loop with no further
\* poll
MonStepAsStated ==
    /\ MonOneAtATime
    /\ (pc = "answered" /\ ContainsPhrase(response)) => pc' = "polling"
    /\ (pc = "answered" /\ ~ContainsPhrase(response))
          => pc' = "complete" /\ polls' = polls

MonStepAmended ==
    /\ MonOneAtATime
    /\ (pc = "answered" /\ ~TextWithoutPhrase(response)) => pc' = "polling"
    /\ (pc = "answered" /\ TextWithoutPhrase(response))
          => pc' = "complete" /\ polls' = polls
    /\ pc' = "complete" => pc = "answered" /\ TextWithoutPhrase(response)

MegaTests == 3

\* questions of generate_1000_questions, each with the words of lines 210-229
\* its lower-cased text contains
MegaQuestions ==
    { [text |-> "What is Meta's performance?", words |-> {"performance"}],
      [text |-> "How many conversions did Meta get?",
       words |-> {"conversions", "how many"}],
      [text |-> "What is the spend for FreshNest Summer Grilling?",
       words |-> {"freshnest"}],
      [text |-> "Which platform spent the most?", words |-> {"which", "most"}],
      [text |-> "What are the key metrics?", words |-> {}] }

\* lines 209-229: the category of a question
mega_category(q) ==
    IF q.words \cap {"performance", "performing", "results"} # {}
    THEN "platform_performance"
    ELSE IF "conversions" \in q.words THEN "platform_conversions"
    ELSE IF "freshnest" \in q.words THEN "campaign_specific"
    ELSE IF q.words \cap {"which", "best", "highest", "most"} # {} THEN "comparative"
    ELSE IF q.words \cap {"learn", "apply", "recommendations", "optimize", "improve"} # {}
    THEN "strategic"
    ELSE IF q.words \cap {"summary", "overview", "executive"} # {}
    THEN "executive_summary"
    ELSE IF q.words \cap {"anomaly", "anomalies", "unusual", "outliers"} # {}
    THEN "anomaly_detection"
    ELSE IF q.words \cap {"optimization", "optimize"} # {} THEN "optimization"
    ELSE IF q.words \cap {"total", "overall", "how much", "how many"} # {}
    THEN "basic_metrics"
    ELSE IF q.words \cap {"trends", "patterns", "insights", "analytics"} # {}
    THEN "advanced_analytics"
    ELSE "other"

\* lines 190-202: the categories that are tracked
MegaCategories ==
    { "platform_performance", "platform_conversions", "campaign_specific",
      "comparative", "strategic", "executive_summary", "anomaly_detection",
      "optimization", "basic_metrics", "advanced_analytics" }

ICanHelp == "I can help you analyze"

MegaContents ==
    { <<>>,
      << TryAsking, ":", " ", LongText >>,
      << TryAsking, " ", LongText >>,
      << ICanHelp, " ", LongText >>,
      << AmazonLed, " ", "4", ".", "0", "x" >> }

MegaReplies ==
    { [kind |-> "failed", text |-> <<>>],
      [kind |-> "missing", text |-> <<>>],
      [kind |-> "null", text |-> <<>>] }
        \cup { [kind |-> "content", text |-> t] : t \in MegaContents }

\* query_api, lines 8-20
mega_query_api(r) ==
    CASE r.kind = "failed" -> [is_none |-> FALSE, text |-> << "Error:", " ", "<exception>" >>]
      [] r.kind = "missing" -> [is_none |-> FALSE, text |-> << "No content" >>]
      [] r.kind = "null" -> [is_none |-> TRUE, text |-> <<>>]
      [] OTHER -> [is_none |-> FALSE, text |-> r.text]

\* line 238: "Try asking about:" in response or "I can help you analyze" in response
MegaGeneric(text) ==
    \/ \E i \in 1..(Len(text) - 1) : text[i] = TryAsking /\ text[i + 1] = ":"
    \/ \E i \in 1..Len(text) : text[i] = ICanHelp

InitMega ==
    /\ script = "mega_1000_uat"
    /\ pc = "asking"
    /\ csv = <<>>
    /\ data = NoData
    /\ metrics = NoMetrics
    /\ exc = "none"
    /\ question = NoQuestion
    /\ response = NoResponse
    /\ expected = Zero
    /\ outcome = NoOutcome
    /\ attempt = 0
    /\ reply = NoReply
    /\ polls = 0
    /\ results = [i |-> 1, passed_tests |-> 0, generic_responses |-> 0,
                  categories |-> [c \in MegaCategories |-> [total |-> 0, passed |-> 0]]]

\* lines 207-235: the next question, its category, and the request
MegaQueryApi ==
    /\ script = "mega_1000_uat"
    /\ pc = "asking"
    /\ \E q \in MegaQuestions, r \in MegaReplies :
          LET category == mega_category(q)
          IN  /\ question' = q.text
              /\ reply' = r
              /\ response' = mega_query_api(r)
              /\ results' =
                    IF category \in MegaCategories
                    THEN [results EXCEPT !.categories[category].total = @ + 1]
                    ELSE results
              /\ outcome' = [category |-> category]
    /\ pc' = "answered"
    /\ UNCHANGED <<script, csv, data, metrics, exc, expected, attempt, polls>>

\* lines 237-255: the count; "in" on a None response raises TypeError, which
\* nothing catches
MegaCount ==
    /\ script = "mega_1000_uat"
    /\ pc = "answered"
    /\ IF response.is_none
       THEN /\ exc' = "TypeError"
            /\ pc' = "crashed"
            /\ UNCHANGED <<results, outcome>>
       ELSE /\ IF MegaGeneric(response.text)
               THEN /\ results' = [results EXCEPT !.generic_responses = @ + 1,
                                                  !.i = @ + 1]
                    /\ outcome' = [category |-> outcome.category, verdict |-> "Generic"]
               ELSE /\ results' =
                          IF outcome.category \in MegaCategories
                          THEN [results EXCEPT !.passed_tests = @ + 1,
                                               !.i = @ + 1,
                                               !.categories[outcome.category].passed = @ + 1]
                          ELSE [results EXCEPT !.passed_tests = @ + 1, !.i = @ + 1]
                    /\ outcome' = [category |-> outcome.category, verdict |-> "Success"]
            /\ pc' = IF results.i = MegaTests THEN "done" ELSE "asking"
            /\ UNCHANGED exc
    /\ UNCHANGED <<script, csv, data, metrics, question, response, expected, polling>>

NextMega ==
    \/ MegaQueryApi
    \/ MegaCount

SpecMega == InitMega /\ [][NextMega]_vars

\* the last question has just been counted as passed
MegaCountedPassed ==
    /\ script = "mega_1000_uat"
    /\ pc \in {"asking", "done"}
    /\ results.i > 1
    /\ outcome.verdict = "Success"

\* C22: run_mega_uat counts a question in passed_tests only when the API
\* returned an answer: a question whose request failed, or whose reply had no
\* content, is not counted as passed
C22_PassedOnlyOnAnswer ==
    MegaCountedPassed => reply.kind = "content"

(***************************************************************************)
(* accurate_qa_test.py: generate_test_questions, the basic-metric          *)
(* questions                                                               *)
(***************************************************************************)

\* entries of basic_questions (lines 259-306), each with the keywords of
\* lines 309-320 its lower-cased text contains
AccBasicQuestions ==
    { [text |-> "What is our total ROAS?", words |-> {"roas"}],
      [text |-> "How much did we spend in total?", words |-> {"spend"}],
      [text |-> "What is our total revenue?", words |-> {"revenue"}],
      [text |-> "How many total clicks?", words |-> {"clicks"}],
      [text |-> "What is our overall return on ad spend?",
       words |-> {"spend", "return", "return on ad spend"}],
      [text |-> "What is our overall click-through rate?",
       words |-> {"click-through rate"}],
      [text |-> "What is our average return on investment?",
       words |-> {"invest", "return", "return on investment"}],
      [text |-> "What is our total return?", words |-> {"return"}],
      [text |-> "What is our overall performance?", words |-> {}] }

\* lines 309-320: the key of expected the question is given, "" when no
\* branch takes the question
acc_basic_expected_key(q) ==
    IF q.words \cap {"spend", "money", "budget", "cost", "invest"} # {}
    THEN "total_spend"
    ELSE IF q.words \cap {"revenue", "earnings", "income", "return", "generate"} # {}
    THEN "total_revenue"
    ELSE IF q.words \cap {"impressions", "views", "displays", "shown"} # {}
    THEN "total_impressions"
    ELSE IF q.words \cap {"clicks", "interactions", "engagements", "made"} # {}
    THEN "total_clicks"
    ELSE IF q.words \cap {"roas", "return on ad spend", "return on investment"} # {}
    THEN "overall_roas"
    ELSE IF q.words \cap {"ctr", "click-through rate", "click rate"} # {}
    THEN "overall_ctr"
    ELSE ""

\* the files of this run: those of at most one row, and the two-platform file
AccGenFiles == { f \in CsvFiles : Len(f) <= 1 } \cup ValCsvFiles

InitAccGen ==
    /\ script = "accurate_qa_test"
    /\ pc = "start"
    /\ csv \in AccGenFiles
    /\ data = NoData
    /\ metrics = NoMetrics
    /\ exc = "none"
    /\ question = NoQuestion
    /\ response = NoResponse
    /\ expected = Zero
    /\ outcome = NoOutcome
    /\ attempt = 0
    /\ reply = NoReply
    /\ polls = 0
    /\ results = NoResults

\* one turn of the loop of line 308
AccGenerateBasicQuestion ==
    /\ script = "accurate_qa_test"
    /\ pc = "metrics"
    /\ \E q \in AccBasicQuestions :
          LET key == acc_basic_expected_key(q)
          IN  /\ question' = q
              /\ IF key = ""
                 THEN /\ outcome' = [appended |-> FALSE]
                      /\ UNCHANGED expected
                 ELSE /\ outcome' = [appended |-> TRUE, key |-> key,
                                     category |-> "basic_metrics"]
                      /\ expected' = IF key \in {"overall_roas", "overall_ctr"}
                                     THEN metrics[key] ELSE ToRat(metrics[key])
    /\ pc' = "generated"
    /\ UNCHANGED <<script, polling, results, csv, data, metrics, exc, response>>

AccNextBasicQuestion ==
    /\ script = "accurate_qa_test"
    /\ pc = "generated"
    /\ question' = NoQuestion
    /\ expected' = Zero
    /\ outcome' = NoOutcome
    /\ pc' = "metrics"
    /\ UNCHANGED <<script, polling, results, csv, data, metrics, exc, response>>

NextAccGen ==
    \/ AccLoadCsvData
    \/ AccCalculateExpectedValues
    \/ AccGenerateBasicQuestion
    \/ AccNextBasicQuestion

SpecAccGen == InitAccGen /\ [][NextAccGen]_vars

\* the question just generated names the return on ad spend
AccAsksRoas ==
    /\ script = "accurate_qa_test"
    /\ pc = "generated"
    /\ question.words \cap {"roas", "return on ad spend", "return on investment"} # {}

\* C23: every basic-metric question containing 'roas', 'return on ad spend'
\* or 'return on investment' is appended with expected['overall_roas'],
\* whatever other keywords it contains
C23_RoasQuestionExpectsRoas ==
    AccAsksRoas =>
        /\ outcome.appended
        /\ outcome.key = "overall_roas"
        /\ expected = metrics.overall_roas

(***************************************************************************)
(* accurate_qa_test.py: run_accurate_tests                                 *)
(***************************************************************************)

\* the number of questions of a run
AccRunLength == 2

\* entries of the list generate_test_questions returns (lines 310, 314, 370)
AccGenerated(expected_values) ==
    { [question |-> "How much did we spend in total?",
       expected |-> ToRat(expected_values.total_spend), category |-> "basic_metrics"],
      [question |-> "How many total clicks?",
       expected |-> ToRat(expected_values.total_clicks), category |-> "basic_metrics"],
      [question |-> "How many platforms do we have?",
       expected |-> ToRat(expected_values.platform_count), category |-> "platform_count"] }

AccRunResponses ==
    { ErrorResponse, Body(<< "4" >>), Body(<< "1" >>), BodyWithValue(<<>>, ToRat(4)) }

InitAccRun ==
    /\ script = "accurate_qa_test"
    /\ pc = "start"
    /\ csv \in ValCsvFiles
    /\ data = NoData
    /\ metrics = NoMetrics
    /\ exc = "none"
    /\ question = NoQuestion
    /\ response = NoResponse
    /\ expected = Zero
    /\ outcome = NoOutcome
    /\ attempt = 0
    /\ reply = NoReply
    /\ polls = 0
    /\ results = [all_tests |-> <<>>, passed_tests |-> 0, failed_tests |-> 0,
                  generated |-> <<>>]

\* lines 490-499: one turn of the loop over the questions; generated keeps
\* the entry of the list the question came from
AccRunTest ==
    /\ script = "accurate_qa_test"
    /\ pc = "metrics"
    /\ Len(results.all_tests) < AccRunLength
    /\ \E q \in AccGenerated(metrics), r \in AccRunResponses :
          LET result == test_question(r, q.expected, AccTolerance)
          IN  /\ question' = q
              /\ response' = r
              /\ expected' = q.expected
              /\ outcome' = result
              /\ results' =
                    [results EXCEPT
                        !.all_tests = Append(@, result),
                        !.generated = Append(@, q),
                        !.passed_tests = IF result.passed THEN @ + 1 ELSE @,
                        !.failed_tests = IF result.passed THEN @ ELSE @ + 1]
    /\ UNCHANGED <<script, pc, polling, csv, data, metrics, exc>>

\* failure.get('category', 'unknown'), line 522
FailureCategory(failure) ==
    IF "category" \in DOMAIN failure THEN failure.category ELSE "unknown"

\* lines 517-525: failures and failure_categories
failure_categories(all_tests) ==
    LET failures == SelectSeq(all_tests, LAMBDA test : ~test.passed)
        categories == { FailureCategory(failures[i]) : i \in 1..Len(failures) }
    IN  [c \in categories |->
            Cardinality({ i \in 1..Len(failures) : FailureCategory(failures[i]) = c })]

\* lines 512-539: the results of the run
AccAnalyseFailures ==
    /\ script = "accurate_qa_test"
    /\ pc = "metrics"
    /\ Len(results.all_tests) = AccRunLength
    /\ results' = [all_tests |-> results.all_tests,
                   passed_tests |-> results.passed_tests,
                   failed_tests |-> results.failed_tests,
                   generated |-> results.generated,
                   failure_categories |-> failure_categories(results.all_tests)]
    /\ pc' = "analysed"
    /\ UNCHANGED <<script, polling, csv, data, metrics, exc, validation>>

NextAccRun ==
    \/ AccLoadCsvData
    \/ AccCalculateExpectedValues
    \/ AccRunTest
    \/ AccAnalyseFailures

SpecAccRun == InitAccRun /\ [][NextAccRun]_vars

\* the categories questions are generated with
AccCategories ==
    { "basic_metrics", "platform_count", "platform_performance", "platform_spend",
      "platform_revenue", "platform_impressions", "platform_clicks",
      "platform_specific" }

\* the number of failed tests whose question was generated with category c
AccFailedIn(c) ==
    Cardinality({ i \in 1..Len(results.all_tests) :
                     /\ ~results.all_tests[i].passed
                     /\ results.generated[i].category = c })

\* failure_categories[c], 0 for a category that has no entry
AccFailureCount(c) ==
    IF c \in DOMAIN results.failure_categories
    THEN results.failure_categories[c] ELSE 0

\* C24: after run_accurate_tests, failure_categories[category] is the number
\* of failed tests whose question was generated with that category
C24_FailuresByCategory ==
    (script = "accurate_qa_test" /\ pc = "analysed")
        => \A c \in AccCategories : AccFailureCount(c) = AccFailedIn(c)

(***************************************************************************)
(* comprehensive_uat_realistic_data.py: the expected value of the spend    *)
(* questions (checked under SpecReal)                                      *)
(***************************************************************************)

\* the spend of the rows of the file whose column f reads key
RealSpendOf(f, key) ==
    ToRat(SumSeq(Column(SelectSeq(csv, LAMBDA row : row[f] = key), "spend")))

\* C25: for the query types 'platform_spend' and 'campaign_spend' the
\* expected value passed to validate_response is the spend sum of the named
\* platform or campaign
C25_SpendOfNamedEntity ==
    /\ (RealValidated /\ question.query_type = "platform_spend")
          => expected = RealSpendOf("platform", question.key)
    /\ (RealValidated /\ question.query_type = "campaign_spend")
          => expected = RealSpendOf("campaign_name", question.key)

(***************************************************************************)
(* comprehensive_uat_realistic_data.py: the counters of                    *)
(* run_comprehensive_uat                                                   *)
(***************************************************************************)

\* the number of test questions of a run (len(test_questions) in the script)
RealRunLength == 3

\* lines 279-308: the category of a query type
real_category(query_type) ==
    CASE query_type \in { "total_spend", "total_revenue", "total_impressions",
                          "total_clicks", "overall_ctr", "average_roas" } -> "basic_metrics"
      [] query_type \in { "platform_roas", "platform_ctr", "platform_spend" }
            -> "platform_specific"
      [] query_type \in { "campaign_roas", "campaign_ctr", "campaign_spend" }
            -> "campaign_specific"
      [] query_type = "optimization" -> "advanced_optimization"
      [] query_type = "management" -> "campaign_management"
      [] query_type = "comparative" -> "comparative_analysis"
      [] query_type = "strategic" -> "strategic_insights"
      [] query_type = "placement" -> "placement_optimization"
      [] query_type = "creative" -> "creative_optimization"
      [] query_type = "audience" -> "audience_optimization"
      [] query_type = "anomaly" -> "anomaly_detection"
      [] query_type = "pacing" -> "pacing_analysis"
      [] query_type = "comprehensive" -> "comprehensive_optimization"
      [] query_type = "quality" -> "management_quality"
      [] OTHER -> "other"

RealRunCategories == { real_category(t.query_type) : t \in RealTests }

RealRunContents ==
    { <<>>,
      << IUnderstand, " ", LongText >>,
      << LongText >>,
      << "$", "4" >>,
      << "0" >> }

\* what one request can do: fail, return a null content, or return text
RealRunReplies ==
    { [kind |-> "failed", text |-> <<>>], [kind |-> "null", text |-> <<>>] }
        \cup { [kind |-> "content", text |-> t] : t \in RealRunContents }

\* query_api, lines 42-52; a null content is None, which every test of the
\* loop treats as the empty text
real_query_api(r) ==
    IF r.kind = "failed" THEN << "Error:", " ", "<exception>" >> ELSE r.text

InitRealRun ==
    /\ script = "comprehensive_uat_realistic_data"
    /\ pc = "start"
    /\ csv \in RealCsvFiles
    /\ data = NoData
    /\ metrics = NoMetrics
    /\ exc = "none"
    /\ question = NoQuestion
    /\ response = NoResponse
    /\ expected = Zero
    /\ outcome = NoOutcome
    /\ attempt = 0
    /\ reply = NoReply
    /\ polls = 0
    /\ results = [total |-> RealRunLength, i |-> 0, successful |-> 0, failed |-> 0,
                  errors |-> 0, generic_responses |-> 0,
                  category_results |->
                     [c \in RealRunCategories |->
                         [successful |-> 0, failed |-> 0, total |-> 0]]]

\* lines 275-313: the next test question, its category, and the request
RealRunQueryApi ==
    /\ script = "comprehensive_uat_realistic_data"
    /\ pc = "loaded"
    /\ results.i < RealRunLength
    /\ \E t \in RealTests, r \in RealRunReplies :
          /\ question' = t
          /\ reply' = r
          /\ response' = real_query_api(r)
          /\ results' = [results EXCEPT
                            !.category_results[real_category(t.query_type)].total = @ + 1]
    /\ pc' = "answered"
    /\ UNCHANGED <<script, csv, data, metrics, exc, expected, outcome, attempt, polls>>

\* lines 316-336: success and reason of the question
real_judge(t, text, expected_value) ==
    IF t.response_type = "insights"
    THEN IF text = <<>> \/ HasNeedle(text, "Error:")
         THEN [pass |-> FALSE, reason |-> "API Error or no response"]
         ELSE IF HasNeedle(text, IUnderstand)
         THEN [pass |-> FALSE, reason |-> "Generic help response"]
         ELSE [pass |-> TRUE, reason |-> "Meaningful insight response"]
    ELSE real_validate_response(text, expected_value, RealTolerance, t.response_type)

\* a count that books an error or a generic answer of an insight question
\* in its own counter only
real_update_results_errors_apart(res, t, verdict) ==
    LET category == real_category(t.query_type)
        insights == t.response_type = "insights"
        error == insights /\ verdict.reason = "API Error or no response"
        generic == insights /\ verdict.reason = "Generic help response"
    IN  IF verdict.pass
        THEN [res EXCEPT !.i = @ + 1, !.successful = @ + 1,
                         !.category_results[category].successful = @ + 1]
        ELSE IF error THEN [res EXCEPT !.i = @ + 1, !.errors = @ + 1]
        ELSE IF generic THEN [res EXCEPT !.i = @ + 1, !.generic_responses = @ + 1]
        ELSE [res EXCEPT !.i = @ + 1, !.failed = @ + 1,
                         !.category_results[category].failed = @ + 1]

\* lines 318-326 and 338-346: the counters after the question
real_update_results(res, t, verdict) ==
    LET category == real_category(t.query_type)
        insights == t.response_type = "insights"
        error == insights /\ verdict.reason = "API Error or no response"
        generic == insights /\ verdict.reason = "Generic help response"
    IN  IF verdict.pass
        THEN [res EXCEPT !.i = @ + 1, !.successful = @ + 1,
                         !.category_results[category].successful = @ + 1]
        ELSE [res EXCEPT !.i = @ + 1, !.failed = @ + 1,
                         !.errors = IF error THEN @ + 1 ELSE @,
                         !.generic_responses = IF generic THEN @ + 1 ELSE @,
                         !.category_results[category].failed = @ + 1]

\* lines 316-346: the verdict and the counters; the print of line 346 slices
\* the response, which raises TypeError when it is None
RealRunCount ==
    /\ script = "comprehensive_uat_realistic_data"
    /\ pc = "answered"
    /\ LET expected_value ==
              IF question.response_type = "insights" THEN expected
              ELSE real_calculate_csv_metrics(data, question.query_type, question.key)
           verdict == real_judge(question, response, expected_value)
       IN  /\ expected' = expected_value
           /\ outcome' = verdict
           /\ results' = real_update_results(results, question, verdict)
           /\ IF ~verdict.pass /\ reply.kind = "null"
              THEN exc' = "TypeError" /\ pc' = "crashed"
              ELSE /\ exc' = exc
                   /\ pc' = IF results.i + 1 = RealRunLength THEN "done" ELSE "loaded"
    /\ UNCHANGED <<script, csv, data, metrics, question, response, polling>>

NextRealRun ==
    \/ RealLoadCsvData
    \/ RealRunQueryApi
    \/ RealRunCount

SpecRealRun == InitRealRun /\ [][NextRealRun]_vars

\* the counters exist: load_csv_data has returned
RealRunCounting ==
    /\ script = "comprehensive_uat_realistic_data"
    /\ pc \in { "loaded", "answered", "done", "crashed" }
    /\ exc # "ValueError"

\* C30: throughout run_comprehensive_uat each processed question increments
\* exactly one of successful and failed, so after k questions successful +
\* failed = k, which is total at the end, and errors + generic_responses
\* never exceeds failed
C30_CountersAddUp ==
    RealRunCounting =>
        /\ results.successful + results.failed = results.i
        /\ pc = "done" => results.successful + results.failed = results.total
        /\ results.errors + results.generic_responses <= results.failed

\* a finished run that counted a success, an error and a generic answer
C30_Witness ==
    /\ script = "comprehensive_uat_realistic_data"
    /\ pc = "done"
    /\ results.successful = 1
    /\ results.errors = 1
    /\ results.generic_responses = 1
    /\ results.failed = 2

(***************************************************************************)
(* fix_csv_data.py                                                         *)
(***************************************************************************)

\* round(n / d) to the nearest integer, ties to even: the digits an f-string
\* format keeps, for n >= 0 and d > 0
RoundHalfEven(n, d) ==
    LET q == n \div d
        r == n % d
    IN  IF 2 * r < d THEN q
        ELSE IF 2 * r > d THEN q + 1
        ELSE IF q % 2 = 0 THEN q ELSE q + 1

\* one row of the file: the counts, the spend, the roas in hundredths, the
\* ctr in ten-thousandths, the cpc in hundredths and the cpm in tenths
FixRow(counts, spend, roas) ==
    [impressions |-> counts[1], clicks |-> counts[2], conversions |-> counts[3],
     spend |-> spend, roas |-> roas, ctr |-> 0, cpc |-> 0, cpm |-> 0]

FixRows ==
    { FixRow(<<i, c, v>>, s, 100) :
        i \in { -1, 0, 5 }, c \in { 0, 2 }, v \in { 0, 1 }, s \in { 0, 3 } }

\* the files: empty, of one row, and one of two rows
FixFiles ==
    { <<>> } \cup { << r >> : r \in FixRows }
        \cup { << FixRow(<<0, 0, 0>>, 3, 100), FixRow(<<5, 2, 1>>, 3, 100) >> }

\* what the random module returns: randint(10, 1000), uniform(0.005, 0.05),
\* uniform(0.01, 0.10), and uniform(1.5, 5.0) as formatted, in hundredths
FixDraws ==
    [randint : { 10, 1000 },
     ctr : { [num |-> 5, den |-> 1000], [num |-> 50, den |-> 1000] },
     conv_rate : { [num |-> 1, den |-> 100], [num |-> 10, den |-> 100] },
     roas : { 150, 250, 500 }]

\* lines 24-25
fixed_impressions(row, d) ==
    IF row.impressions = 0 THEN d.randint ELSE row.impressions

\* a fix of the clicks without the floor of one click
fixed_clicks_unfloored(row, impressions, d) ==
    IF row.clicks = 0 /\ impressions > 0
    THEN (impressions * d.ctr.num) \div d.ctr.den
    ELSE row.clicks

\* lines 28-34; int() of a non-negative product truncates
fixed_clicks(row, impressions, d) ==
    IF row.clicks = 0 /\ impressions > 0
    THEN LET clicks == (impressions * d.ctr.num) \div d.ctr.den
         IN  IF clicks < 1 THEN 1 ELSE clicks
    ELSE row.clicks

\* lines 37-43
fixed_conversions(row, clicks, d) ==
    IF row.conversions = 0 /\ clicks > 0
    THEN LET conversions == (clicks * d.conv_rate.num) \div d.conv_rate.den
         IN  IF conversions < 1 THEN 1 ELSE conversions
    ELSE row.conversions

\* lines 21-73: fixed_row
fix_row(row, d) ==
    LET impressions == fixed_impressions(row, d)
        clicks == fixed_clicks(row, impressions, d)
        conversions == fixed_conversions(row, clicks, d)
    IN  [impressions |-> impressions,
         clicks |-> clicks,
         conversions |-> conversions,
         spend |-> row.spend,
         ctr |-> IF impressions > 0
                 THEN RoundHalfEven(clicks * 10000, impressions) ELSE row.ctr,
         cpc |-> IF clicks > 0 THEN RoundHalfEven(row.spend * 100, clicks) ELSE row.cpc,
         cpm |-> IF impressions > 0
                 THEN RoundHalfEven(row.spend * 10000, impressions) ELSE row.cpm,
         roas |-> IF conversions > 0 /\ row.spend > 0 THEN d.roas ELSE 250]

InitFix ==
    /\ script = "fix_csv_data"
    /\ pc = "start"
    /\ csv \in FixFiles
    /\ data = NoData
    /\ metrics = NoMetrics
    /\ exc = "none"
    /\ question = NoQuestion
    /\ response = NoResponse
    /\ expected = Zero
    /\ outcome = NoOutcome
    /\ attempt = 0
    /\ reply = NoReply
    /\ polls = 0
    /\ results = NoResults

\* lines 10-19: rows, held in data, and the empty fixed_rows, held in results
FixRead ==
    /\ script = "fix_csv_data"
    /\ pc = "start"
    /\ data' = csv
    /\ results' = <<>>
    /\ pc' = "read"
    /\ UNCHANGED <<script, polling, csv, metrics, exc, validation>>

\* lines 20-73: one turn of the loop
FixNextRow ==
    /\ script = "fix_csv_data"
    /\ pc = "read"
    /\ Len(results) < Len(data)
    /\ \E d \in FixDraws :
          results' = Append(results, fix_row(data[Len(results) + 1], d))
    /\ UNCHANGED <<script, pc, polling, csv, data, metrics, exc, validation>>

\* lines 76-80: open(..., 'w') empties the file, fixed_rows[0] raises
\* IndexError when there is no row, writerows writes the rows
FixWrite ==
    /\ script = "fix_csv_data"
    /\ pc = "read"
    /\ Len(results) = Len(data)
    /\ IF results = <<>>
       THEN /\ csv' = <<>>
            /\ exc' = "IndexError"
            /\ pc' = "crashed"
       ELSE /\ csv' = results
            /\ exc' = exc
            /\ pc' = "written"
    /\ UNCHANGED <<script, polling, results, data, metrics, validation>>

NextFix ==
    \/ FixRead
    \/ FixNextRow
    \/ FixWrite

SpecFix == InitFix /\ [][NextFix]_vars

FixWritten == script = "fix_csv_data" /\ pc = "written"

NonNegativeCounts(row) ==
    row.impressions >= 0 /\ row.clicks >= 0 /\ row.conversions >= 0

NonZeroCounts(row) ==
    row.impressions # 0 /\ row.clicks # 0 /\ row.conversions # 0

\* C26: after fix_csv_data has run on rows with non-negative counts, every
\* row written back has non-zero impressions, clicks and conversions
C26_NoZeroCountWritten ==
    (FixWritten /\ \A k \in 1..Len(data) : NonNegativeCounts(data[k]))
        => \A k \in 1..Len(csv) : NonZeroCounts(csv[k])

\* a row read with three zero counts has been written back
C26_Witness ==
    /\ FixWritten
    /\ \A k \in 1..Len(data) : NonNegativeCounts(data[k])
    /\ data[1].impressions = 0 /\ data[1].clicks = 0 /\ data[1].conversions = 0
    /\ NonZeroCounts(csv[1])

\* C27: a row whose impressions, clicks and conversions are all non-zero is
\* written back with its spend, impressions, clicks, conversions and roas
\* unchanged
C27_NonZeroRowUnchanged ==
    FixWritten =>
        \A k \in 1..Len(data) :
            NonZeroCounts(data[k]) =>
                /\ csv[k].spend = data[k].spend
                /\ csv[k].impressions = data[k].impressions
                /\ csv[k].clicks = data[k].clicks
                /\ csv[k].conversions = data[k].conversions
                /\ csv[k].roas = data[k].roas

(***************************************************************************)
(* mega_1000_qa_test.py: generate_questions                                *)
(***************************************************************************)

\* the length asked for, lines 417, 420 and 425
GenTarget == 1000

\* len(base_questions), lines 66-352
GenBaseCount == 260

\* len(questions) at line 416. The templates of lines 358-414 yield 345 to
\* 645 questions (260 base questions, up to 300 variations, 35 platform, 10
\* brand and 40 metric questions); the larger lengths are the case of line
\* 425 in which the list has to be cut
GenTemplateCounts == { 345, 645, 999, 1000, 1200 }

InitGen ==
    /\ script = "mega_1000_qa_test"
    /\ pc = "start"
    /\ csv = <<>>
    /\ data = NoData
    /\ metrics = NoMetrics
    /\ exc = "none"
    /\ question = NoQuestion
    /\ response = NoResponse
    /\ expected = Zero
    /\ outcome = NoOutcome
    /\ attempt = 0
    /\ reply = NoReply
    /\ polls = 0
    /\ results = NoResults

\* lines 355-414: the questions of the templates; results holds the length
\* of questions, the number of "additional" questions among them, and the
\* position of the for loop in base_questions
GenTemplates ==
    /\ script = "mega_1000_qa_test"
    /\ pc = "start"
    /\ \E n \in GenTemplateCounts : results' = [len |-> n, additional |-> 0, base |-> 0]
    /\ pc' = "while"
    /\ UNCHANGED <<script, polling, csv, data, metrics, exc, validation>>

\* line 417: while len(questions) < 1000
GenWhile ==
    /\ script = "mega_1000_qa_test"
    /\ pc = "while"
    /\ IF results.len < GenTarget
       THEN /\ results' = [results EXCEPT !.base = 0]
            /\ pc' = "for"
       ELSE /\ results' = results
            /\ pc' = "trim"
    /\ UNCHANGED <<script, polling, csv, data, metrics, exc, validation>>

\* lines 419-422: one turn of the for loop, its break, or its end
GenFor ==
    /\ script = "mega_1000_qa_test"
    /\ pc = "for"
    /\ IF results.base = GenBaseCount \/ results.len >= GenTarget
       THEN /\ results' = results
            /\ pc' = "while"
       ELSE /\ results' = [results EXCEPT !.len = @ + 1, !.additional = @ + 1,
                                          !.base = @ + 1]
            /\ pc' = "for"
    /\ UNCHANGED <<script, polling, csv, data, metrics, exc, validation>>

\* a return that leaves the list as long as it is
GenTrimKeepsAll ==
    /\ script = "mega_1000_qa_test"
    /\ pc = "trim"
    /\ results' = results
    /\ pc' = "returned"
    /\ UNCHANGED <<script, polling, csv, data, metrics, exc, validation>>

\* lines 425-427: questions[:1000] and the return
GenTrim ==
    /\ script = "mega_1000_qa_test"
    /\ pc = "trim"
    /\ LET cut == IF results.len > GenTarget THEN results.len - GenTarget ELSE 0
       IN  results' = [results EXCEPT
                          !.len = @ - cut,
                          !.additional = IF @ > cut THEN @ - cut ELSE 0]
    /\ pc' = "returned"
    /\ UNCHANGED <<script, polling, csv, data, metrics, exc, validation>>

NextGen ==
    \/ GenTemplates
    \/ GenWhile
    \/ GenFor
    \/ GenTrim

\* the function is straight-line code with no wait: a step that can be
\* taken is taken
SpecGen == InitGen /\ [][NextGen]_vars /\ WF_vars(NextGen)

GenReturned == script = "mega_1000_qa_test" /\ pc = "returned"

\* C28: generate_questions always terminates and returns a list of exactly
\* 1000 questions, however many questions the templates produced before the
\* padding loop
C28_ReturnsThousand ==
    /\ <>GenReturned
    /\ [](GenReturned => results.len = GenTarget)

\* the list was padded up to the length asked for and returned
C28_Witness ==
    /\ GenReturned
    /\ results.additional = 655
    /\ results.len = 1000

(***************************************************************************)
(* test_handler_logic.py                                                   *)
(***************************************************************************)

\* the longest query, in words
MaxQueryLen == 3

\* the words a query is made of; a query is its words joined by spaces
HandlerWords ==
    { "FreshNest Summer Grilling", "freshnest back to school", "summer grilling",
      "CTR", "click-through rate", "ROAS", "roi", "each", "reach", "individual" }

HandlerQueries == SeqsUpTo(HandlerWords, MaxQueryLen)

\* str.lower() of one word
LowerWord(w) ==
    CASE w = "FreshNest Summer Grilling" -> "freshnest summer grilling"
      [] w = "CTR" -> "ctr"
      [] w = "ROAS" -> "roas"
      [] OTHER -> w

\* query.lower(), line 5
lower_query(query) == [i \in 1..Len(query) |-> LowerWord(query[i])]

\* the searched texts a word holds; "in" is case-sensitive
HandlerNeedles(w) ==
    CASE w = "freshnest summer grilling" -> { "freshnest summer grilling" }
      [] w = "freshnest back to school" -> { "freshnest back to school" }
      [] w = "ctr" -> { "ctr" }
      [] w = "click-through rate" -> { "click-through rate", "click-through" }
      [] w = "roas" -> { "roas" }
      [] w = "roi" -> { "roi" }
      [] w = "each" -> { "each" }
      [] w = "reach" -> { "each" }
      [] w = "individual" -> { "individual" }
      [] OTHER -> {}

\* needle in text
HandlerIn(needle, text) == \E i \in 1..Len(text) : needle \in HandlerNeedles(text[i])

\* line 8
campaign_names ==
    << "freshnest summer grilling", "freshnest back to school",
       "freshnest holiday recipes", "freshnest pantry staples" >>

\* line 11
ctr_keywords ==
    { "ctr", "click-through rate", "click through rate", "click rate",
      "click-through", "clickthrough" }

\* line 15
roas_keywords ==
    { "roas", "return on ad spend", "return on advertising spend",
      "return on investment", "roi" }

\* lines 19-23: the first campaign name found in the query, or "None"
detected_campaign(lq) ==
    LET found == { i \in 1..Len(campaign_names) : HandlerIn(campaign_names[i], lq) }
    IN  IF found = {} THEN "None" ELSE campaign_names[Min(found)]

\* lines 12 and 16
is_ctr_query(lq) == \E keyword \in ctr_keywords : HandlerIn(keyword, lq)
is_roas_query(lq) == \E keyword \in roas_keywords : HandlerIn(keyword, lq)

\* lines 26-29: the value of the and chain, which is its first falsy operand
\* or its last operand
ctr_condition(lq) ==
    IF detected_campaign(lq) = "None" THEN "None"
    ELSE IF ~is_ctr_query(lq) THEN "False"
    ELSE IF HandlerIn("each", lq) THEN "False"
    ELSE IF HandlerIn("individual", lq) THEN "False" ELSE "True"

\* the ROAS condition without its test of 'individual'
roas_condition_each_only(lq) ==
    IF detected_campaign(lq) = "None" THEN "None"
    ELSE IF ~is_roas_query(lq) THEN "False"
    ELSE IF HandlerIn("each", lq) THEN "False" ELSE "True"

\* lines 32-35
roas_condition(lq) ==
    IF detected_campaign(lq) = "None" THEN "None"
    ELSE IF ~is_roas_query(lq) THEN "False"
    ELSE IF HandlerIn("each", lq) THEN "False"
    ELSE IF HandlerIn("individual", lq) THEN "False" ELSE "True"

\* lines 37-46: the dict returned
test_handler_logic(query) ==
    LET lq == lower_query(query)
    IN  [query |-> query,
         lower_query |-> lq,
         detected_campaign |-> detected_campaign(lq),
         is_ctr_query |-> is_ctr_query(lq),
         is_roas_query |-> is_roas_query(lq),
         has_each |-> HandlerIn("each", lq) \/ HandlerIn("individual", lq),
         ctr_condition |-> ctr_condition(lq),
         roas_condition |-> roas_condition(lq)]

\* the truth value of a condition in an if
Truthy(v) == v = "True"

InitHandler ==
    /\ script = "test_handler_logic"
    /\ pc = "start"
    /\ csv = <<>>
    /\ data = NoData
    /\ metrics = NoMetrics
    /\ exc = "none"
    /\ question \in HandlerQueries
    /\ response = NoResponse
    /\ expected = Zero
    /\ outcome = NoOutcome
    /\ attempt = 0
    /\ reply = NoReply
    /\ polls = 0
    /\ results = NoResults

\* line 62: result = test_handler_logic(query)
HandlerTest ==
    /\ script = "test_handler_logic"
    /\ pc = "start"
    /\ outcome' = test_handler_logic(question)
    /\ pc' = "tested"
    /\ UNCHANGED <<script, polling, results, csv, data, metrics, exc, question,
                   response, expected>>

\* lines 72-77: the handler main reports
HandlerSelect ==
    /\ script = "test_handler_logic"
    /\ pc = "tested"
    /\ results' = IF Truthy(outcome.ctr_condition) THEN << "CTR" >>
                  ELSE IF Truthy(outcome.roas_condition) THEN << "ROAS" >>
                  ELSE <<>>
    /\ pc' = "reported"
    /\ UNCHANGED <<script, polling, csv, data, metrics, exc, validation>>

NextHandler ==
    \/ HandlerTest
    \/ HandlerSelect

SpecHandler == InitHandler /\ [][NextHandler]_vars

HandlerReported == script = "test_handler_logic" /\ pc = "reported"

\* s occurs in the lower-cased query
QueryHolds(s) == HandlerIn(s, outcome.lower_query)

\* the lower-cased query names a known campaign and holds neither 'each'
\* nor 'individual'
NamesOneCampaign ==
    /\ \E i \in 1..Len(campaign_names) : QueryHolds(campaign_names[i])
    /\ ~QueryHolds("each")
    /\ ~QueryHolds("individual")

\* C29: the campaign CTR (ROAS) handler condition holds iff the lower-cased
\* query contains one of the four campaign names, contains a CTR (ROAS)
\* keyword, and contains neither 'each' nor 'individual'; no query with
\* 'each' or 'individual' triggers a campaign handler, and at most one
\* handler is selected, CTR before ROAS
C29_HandlerConditions ==
    HandlerReported =>
        /\ Truthy(outcome.ctr_condition)
              <=> (NamesOneCampaign /\ \E k \in ctr_keywords : QueryHolds(k))
        /\ Truthy(outcome.roas_condition)
              <=> (NamesOneCampaign /\ \E k \in roas_keywords : QueryHolds(k))
        /\ (QueryHolds("each") \/ QueryHolds("individual")) => results = <<>>
        /\ Len(results) <= 1
        /\ Truthy(outcome.ctr_condition) => results = << "CTR" >>
        /\ results = << "ROAS" >>
              <=> (Truthy(outcome.roas_condition) /\ ~Truthy(outcome.ctr_condition))

\* a query for which both conditions hold has been reported as a CTR query
C29_Witness ==
    /\ HandlerReported
    /\ Truthy(outcome.ctr_condition)
    /\ Truthy(outcome.roas_condition)
    /\ results = << "CTR" >>

====
